---- MODULE Spec2Model ----
(***************************************************************************)
(* Model of MusicScoreViewer.py: the annotation manager (annotations,      *)
(* rotation map, per-page undo stacks, sidecar persistence) and the parts  *)
(* of the viewer that create, draw and rotate annotations.                 *)
(*                                                                         *)
(* Normalised coordinates are exact rationals on a grid: the integer i     *)
(* stands for i/Unit, so the code's 1.0 - ny is Unit - ny.  Device         *)
(* positions are kept in units of 1/Unit pixel, so that ox + nx * w needs   *)
(* no division.  Python dicts are functions whose DOMAIN is the key set.   *)
(***************************************************************************)
EXTENDS Integers, Sequences, FiniteSets, TLC

VARIABLES
    annotations,    \* AnnotationManager.annotations : page -> list of annotation
    rotations,      \* AnnotationManager.rotations   : page -> degrees
    undo_stack,     \* AnnotationManager._undo_stack : page -> deque of snapshots
    path,           \* AnnotationManager._path       : sidecar path or NoPath
    disk,           \* the file system: sidecar path -> file content
    nextId,         \* the next value uuid.uuid4() returns
    last,           \* the operation that ran last, its arguments and its result
    undoLog,        \* per page: every snapshot pushed since load, and the undos since
    nops,           \* number of manager operations run so far
    doc,            \* MusicScoreApp.doc : the open score or NoDoc
    current_page,   \* MusicScoreApp.current_page
    win,            \* canvas.winfo_width(), canvas.winfo_height()
    page_layout,    \* MusicScoreApp.page_layout : list of placement records
    canvas,         \* the canvas items, lowest first
    tool,           \* AnnotationManager.tool
    current_stroke, \* AnnotationManager.current_stroke
    resize_job,     \* MusicScoreApp._resize_job : the id root.after returned, or NoJob
    root,           \* Tk: is f_display mapped, the timers of root.after still to run
    pointer,        \* event.x, event.y of the last pointer event
    pen_down,       \* the placement rectangle under the pointer when the pen went down
    lib,            \* the library: scores, last_directory, cursor, the scans under way
    fs_dir,         \* the sidecar's directory exists
    fs_tmp,         \* the temp file of tempfile.mkstemp
    call            \* the SafeJSON call in progress, its position and locals

appVars == <<doc, current_page, win, page_layout, canvas, tool, current_stroke, resize_job,
             root, pointer, pen_down, lib>>
storeVars == <<fs_dir, fs_tmp, call>>
vars == <<annotations, rotations, undo_stack, path, disk, nextId, last, undoLog, nops,
          doc, current_page, win, page_layout, canvas, tool, current_stroke, resize_job,
          root, pointer, pen_down, lib, fs_dir, fs_tmp, call>>

-----------------------------------------------------------------------------
(* Bounds of the model *)

Unit == 4           \* grid resolution: coordinate i stands for i / Unit
MaxOps == 4         \* operations per behaviour of SpecMgr
MaxDeepOps == 44    \* operations per behaviour of SpecUndoDepth
MaxUiOps == 2       \* manager operations per behaviour of Spec
MaxStroke == 2      \* points of a pen stroke
MaxCalls == 2       \* SafeJSON.save calls per behaviour of SpecStore
MaxResizes == 3     \* resize events that schedule a render, per behaviour
TickMs == 50        \* the time one step of the clock takes

(* Program constants *)

UNDO_DEPTH == 20
ANNOTATION_VERSION == 2
Sep == 4            \* sep, the gap between two pages side by side
NominalW == 1200
NominalH == 850
MinWinW == 10
EraseHalo == 20
ClosestHalo == 5
RESIZE_DEBOUNCE_MS == 150

Pages == {0, 1}     \* page indices of the open document
NoPath == "None"
NoDoc == "None"
ScorePaths == {"score.pdf"}

-----------------------------------------------------------------------------
(* Python dict helpers *)

EmptyDict == << >>
DictGet(d, k, default) == IF k \in DOMAIN d THEN d[k] ELSE default
DictPut(d, k, v) == [x \in (DOMAIN d) \cup {k} |-> IF x = k THEN v ELSE d[x]]

(* str(p) and int(p_str) for page indices *)
PageStrs == <<"0", "1", "2", "3">>
PageStr(p) == PageStrs[p + 1]
PageInt(s) == CHOOSE p \in 0 .. (Len(PageStrs) - 1) : PageStrs[p + 1] = s

(* os.path.splitext(path)[0] + ".json" *)
SidecarPath(p) == IF p = "score.pdf" THEN "score.json" ELSE "other.json"
SidecarPaths == {SidecarPath(p) : p \in ScorePaths}

-----------------------------------------------------------------------------
(* Annotation records *)

InkAnnot(id, pts, color, width) ==
    [uuid |-> id, type |-> "ink", points |-> pts, color |-> color, width |-> width]

TextAnnot(id, x, y, text, font, color, size) ==
    [uuid |-> id, type |-> "text", x |-> x, y |-> y, text |-> text,
     font |-> font, color |-> color, size |-> size]

PageList(ann, pg) == DictGet(ann, pg, << >>)

Uuids(items) == {items[i].uuid : i \in 1 .. Len(items)}

-----------------------------------------------------------------------------
(* _rotate_annotation_coords *)

(* A variant that turns the other way: (nx, ny) -> (ny, 1 - nx) *)
RECURSIVE RotStepsCCW(_, _)
RotStepsCCW(pt, steps) ==
    IF steps = 0 THEN pt
    ELSE RotStepsCCW(<<pt[2], Unit - pt[1]>>, steps - 1)

RECURSIVE RotSteps(_, _)
RotSteps(pt, steps) ==
    IF steps = 0 THEN pt
    ELSE RotSteps(<<Unit - pt[2], pt[1]>>, steps - 1)

(* A variant that takes the number of steps from the size of delta only *)
RotatePointUnsigned(pt, delta) ==
    RotSteps(pt, ((IF delta < 0 THEN -delta ELSE delta) \div 90) % 4)

RotatePoint(pt, delta) == RotSteps(pt, (delta \div 90) % 4)

RotateAnnot(a, delta) ==
    IF a.type = "ink"
    THEN [a EXCEPT !.points = [i \in 1 .. Len(@) |-> RotatePoint(@[i], delta)]]
    ELSE IF a.type = "text"
    THEN LET q == RotatePoint(<<a.x, a.y>>, delta)
         IN  [a EXCEPT !.x = q[1], !.y = q[2]]
    ELSE a

RotateAnnotationCoords(items, delta) ==
    [i \in 1 .. Len(items) |-> RotateAnnot(items[i], delta)]

-----------------------------------------------------------------------------
(* SafeJSON *)

FileAbsent == [kind |-> "absent"]
FileCorrupt == [kind |-> "corrupt"]
(* a file that exists but whose reading raises something else than
   json.JSONDecodeError: bytes that are not UTF-8, no permission to read *)
FileUndecodable == [kind |-> "undecodable"]
FileJson(data) == [kind |-> "json", data |-> data]

(* A variant that leaves out the pages whose list is empty *)
StrKeysNonEmpty(d) ==
    [s \in {PageStr(p) : p \in {q \in DOMAIN d : d[q] # << >>}} |-> d[PageInt(s)]]

(* json.dump writes the integer page keys of "pages" as strings *)
StrKeys(d) == [s \in {PageStr(p) : p \in DOMAIN d} |-> d[PageInt(s)]]
JsonDump(data) == [data EXCEPT !.pages = StrKeys(@)]

SafeJSONLoad(d, filepath) ==
    IF d[filepath].kind = "json" THEN d[filepath].data ELSE EmptyDict

(* the calls of messagebox.showwarning that SafeJSON.load makes *)
LoadWarnings(d, filepath) == IF d[filepath].kind = "corrupt" THEN 1 ELSE 0

(* io = "ok": temp file written and os.replace done; "failed": any step raised *)
SafeJSONSave(d, filepath, data, io) ==
    IF io = "ok" THEN [d EXCEPT ![filepath] = FileJson(JsonDump(data))] ELSE d

IOResults == {"ok", "failed"}

-----------------------------------------------------------------------------
(* AnnotationManager *)

(* A variant: a plain list, which append never shortens *)
ListAppend(dq, x, maxlen) == Append(dq, x)

(* deque(maxlen=...).append *)
DequeAppend(dq, x, maxlen) ==
    IF Len(dq) >= maxlen THEN Append(Tail(dq), x) ELSE Append(dq, x)

PushUndo(stk, ann, pg) ==
    DictPut(stk, pg, DequeAppend(DictGet(stk, pg, << >>), PageList(ann, pg), UNDO_DEPTH))

(* A variant that writes every entry of the rotation map *)
SaveDataAllRotations(rot, ann) ==
    [version   |-> ANNOTATION_VERSION,
     rotations |-> [s \in {PageStr(p) : p \in DOMAIN rot} |-> rot[PageInt(s)]],
     pages     |-> ann]

SaveData(rot, ann) ==
    [version   |-> ANNOTATION_VERSION,
     rotations |-> [s \in {PageStr(p) : p \in {q \in DOMAIN rot : rot[q] % 360 # 0}}
                       |-> rot[PageInt(s)]],
     pages     |-> ann]

(* AnnotationManager.save with the state (pth, rot, ann) *)
DiskAfterSave(d, pth, rot, ann, io) ==
    IF pth = NoPath THEN d ELSE SafeJSONSave(d, pth, SaveData(rot, ann), io)

SaveOutcome(pth, io) == IF pth = NoPath THEN "nopath" ELSE io

(* The record of an operation: its name, page and argument, what it returned,
   whether it saved ("none", "nopath", "ok", "failed"), the page's list before
   it ran, the operation that ran before it, and the warnings it showed *)
Op(name, pg, arg, ret, saved, before) ==
    [op |-> name, pg |-> pg, arg |-> arg, ret |-> ret, saved |-> saved,
     before |-> before, prev |-> last.op, prevpg |-> last.pg, warned |-> 0]

(* History kept for the undo claims: pushed = the snapshots pushed on the page
   since load, in order; undone = the undos that succeeded since the last push;
   clean = no push has followed an undo *)
NoLog == [pushed |-> << >>, undone |-> 0, clean |-> TRUE]
LogOf(pg) == DictGet(undoLog, pg, NoLog)
LogPush(pg) ==
    undoLog' = DictPut(undoLog, pg,
                   [pushed |-> Append(LogOf(pg).pushed, PageList(annotations, pg)),
                    undone |-> 0,
                    clean  |-> LogOf(pg).clean /\ LogOf(pg).undone = 0])
LogUndo(pg) ==
    undoLog' = DictPut(undoLog, pg, [LogOf(pg) EXCEPT !.undone = @ + 1])

Tick == nops' = nops + 1

(* A variant of add that takes the annotation back when the save fails *)
AddRollsBack(pg, annot, io) ==
    LET failed == SaveOutcome(path, io) = "failed"
        stk == IF failed THEN undo_stack ELSE PushUndo(undo_stack, annotations, pg)
        ann == IF failed THEN annotations
               ELSE DictPut(annotations, pg, Append(PageList(annotations, pg), annot))
    IN  /\ undo_stack' = stk
        /\ annotations' = ann
        /\ disk' = DiskAfterSave(disk, path, rotations, ann, io)
        /\ last' = Op("add", pg, 0, TRUE, SaveOutcome(path, io), PageList(annotations, pg))
        /\ LogPush(pg)
        /\ UNCHANGED <<rotations, path>>

Add(pg, annot, io) ==
    LET stk == PushUndo(undo_stack, annotations, pg)
        ann == DictPut(annotations, pg, Append(PageList(annotations, pg), annot))
    IN  /\ undo_stack' = stk
        /\ annotations' = ann
        /\ disk' = DiskAfterSave(disk, path, rotations, ann, io)
        /\ last' = Op("add", pg, 0, TRUE, SaveOutcome(path, io), PageList(annotations, pg))
        /\ LogPush(pg)
        /\ UNCHANGED <<rotations, path>>

(* A variant of undo that takes the oldest snapshot (popleft) *)
UndoOldest(pg, io) ==
    LET stack == DictGet(undo_stack, pg, << >>)
    IN  IF Len(stack) > 0
        THEN LET ann == DictPut(annotations, pg, stack[1])
             IN  /\ annotations' = ann
                 /\ undo_stack' = [undo_stack EXCEPT ![pg] = Tail(stack)]
                 /\ disk' = DiskAfterSave(disk, path, rotations, ann, io)
                 /\ last' = Op("undo", pg, 0, TRUE, SaveOutcome(path, io),
                               PageList(annotations, pg))
                 /\ LogUndo(pg)
                 /\ UNCHANGED <<rotations, path>>
        ELSE /\ last' = Op("undo", pg, 0, FALSE, "none", PageList(annotations, pg))
             /\ UNCHANGED <<annotations, rotations, undo_stack, path, disk, undoLog>>

(* A variant of undo that creates the page's stack (setdefault) and saves even
   when there is nothing to restore *)
UndoSavesAlways(pg, io) ==
    LET stack == DictGet(undo_stack, pg, << >>)
    IN  IF Len(stack) > 0
        THEN LET ann == DictPut(annotations, pg, stack[Len(stack)])
             IN  /\ annotations' = ann
                 /\ undo_stack' = [undo_stack EXCEPT ![pg] = SubSeq(stack, 1, Len(stack) - 1)]
                 /\ disk' = DiskAfterSave(disk, path, rotations, ann, io)
                 /\ last' = Op("undo", pg, 0, TRUE, SaveOutcome(path, io),
                               PageList(annotations, pg))
                 /\ LogUndo(pg)
                 /\ UNCHANGED <<rotations, path>>
        ELSE /\ undo_stack' = DictPut(undo_stack, pg, << >>)
             /\ disk' = DiskAfterSave(disk, path, rotations, annotations, io)
             /\ last' = Op("undo", pg, 0, FALSE, SaveOutcome(path, io),
                           PageList(annotations, pg))
             /\ UNCHANGED <<annotations, rotations, path, undoLog>>

(* A variant of undo that forgets the other pages' stacks *)
UndoDropsOtherStacks(pg, io) ==
    LET stack == DictGet(undo_stack, pg, << >>)
    IN  IF Len(stack) > 0
        THEN LET ann == DictPut(annotations, pg, stack[Len(stack)])
             IN  /\ annotations' = ann
                 /\ undo_stack' = [q \in {pg} |-> SubSeq(stack, 1, Len(stack) - 1)]
                 /\ disk' = DiskAfterSave(disk, path, rotations, ann, io)
                 /\ last' = Op("undo", pg, 0, TRUE, SaveOutcome(path, io),
                               PageList(annotations, pg))
                 /\ LogUndo(pg)
                 /\ UNCHANGED <<rotations, path>>
        ELSE /\ last' = Op("undo", pg, 0, FALSE, "none", PageList(annotations, pg))
             /\ UNCHANGED <<annotations, rotations, undo_stack, path, disk, undoLog>>

Undo(pg, io) ==
    LET stack == DictGet(undo_stack, pg, << >>)
    IN  IF Len(stack) > 0
        THEN LET ann == DictPut(annotations, pg, stack[Len(stack)])
             IN  /\ annotations' = ann
                 /\ undo_stack' = [undo_stack EXCEPT ![pg] = SubSeq(stack, 1, Len(stack) - 1)]
                 /\ disk' = DiskAfterSave(disk, path, rotations, ann, io)
                 /\ last' = Op("undo", pg, 0, TRUE, SaveOutcome(path, io),
                               PageList(annotations, pg))
                 /\ LogUndo(pg)
                 /\ UNCHANGED <<rotations, path>>
        ELSE /\ last' = Op("undo", pg, 0, FALSE, "none", PageList(annotations, pg))
             /\ UNCHANGED <<annotations, rotations, undo_stack, path, disk, undoLog>>

RotatePageAnnotations(pg, delta, io) ==
    LET ann == IF pg \in DOMAIN annotations /\ Len(annotations[pg]) > 0
               THEN [annotations EXCEPT ![pg] = RotateAnnotationCoords(@, delta)]
               ELSE annotations
        rot == DictPut(rotations, pg, (DictGet(rotations, pg, 0) + delta) % 360)
    IN  /\ annotations' = ann
        /\ rotations' = rot
        /\ disk' = DiskAfterSave(disk, path, rot, ann, io)
        /\ last' = Op("rotate", pg, delta, TRUE, SaveOutcome(path, io),
                      PageList(annotations, pg))
        /\ UNCHANGED <<undo_stack, path, undoLog>>

Clear ==
    /\ annotations' = EmptyDict
    /\ rotations' = EmptyDict
    /\ undo_stack' = EmptyDict
    /\ path' = NoPath
    /\ current_stroke' = << >>
    /\ undoLog' = EmptyDict
    /\ last' = Op("clear", -1, 0, TRUE, "none", << >>)
    /\ UNCHANGED disk

(* Canvas items as erase_at and _on_click see them: the tuple of tags of an item.
   A tag is [k |-> "bg"], [k |-> "annot"] or [k |-> "uuid", v |-> id] for the
   string "uuid_<id>". *)
TagBg == [k |-> "bg", v |-> 0]
TagAnnot == [k |-> "annot", v |-> 0]
TagUuid(id) == [k |-> "uuid", v |-> id]
NoUuid == 0

HasBg(tags) == \E i \in 1 .. Len(tags) : tags[i].k = "bg"

(* next((t[5:] for t in tags if t.startswith("uuid_")), None) *)
UuidOfTags(tags) ==
    IF \E i \in 1 .. Len(tags) : tags[i].k = "uuid"
    THEN tags[CHOOSE i \in 1 .. Len(tags) :
                 /\ tags[i].k = "uuid"
                 /\ \A j \in 1 .. (i - 1) : tags[j].k # "uuid"].v
    ELSE NoUuid

(* A variant that acts on the first item found, whatever its tags *)
EraseHitFirst(hits, ann, pg) == IF Len(hits) > 0 /\ pg \in DOMAIN ann THEN 1 ELSE 0

(* The index in hits (the result of canvas.find_overlapping) of the item erase_at
   acts on, 0 when the loop ends without acting *)
EraseHit(hits, ann, pg) ==
    LET Acts(i) == /\ ~HasBg(hits[i])
                   /\ UuidOfTags(hits[i]) # NoUuid
                   /\ pg \in DOMAIN ann
    IN  IF \E i \in 1 .. Len(hits) : Acts(i)
        THEN CHOOSE i \in 1 .. Len(hits) : Acts(i) /\ \A j \in 1 .. (i - 1) : ~Acts(j)
        ELSE 0

RemoveUuid(items, uid) == SelectSeq(items, LAMBDA a : a.uuid # uid)

(* A variant of erase_at that takes no snapshot *)
EraseAtNoSnapshot(pg, hits, io) ==
    LET h == EraseHit(hits, annotations, pg)
    IN  IF h # 0
        THEN LET ann == [annotations EXCEPT ![pg] = RemoveUuid(@, UuidOfTags(hits[h]))]
             IN  /\ annotations' = ann
                 /\ disk' = DiskAfterSave(disk, path, rotations, ann, io)
                 /\ last' = Op("erase", pg, UuidOfTags(hits[h]), TRUE,
                               SaveOutcome(path, io), PageList(annotations, pg))
                 /\ UNCHANGED <<rotations, path, undo_stack, undoLog>>
        ELSE /\ last' = Op("erase", pg, NoUuid, FALSE, "none", PageList(annotations, pg))
             /\ UNCHANGED <<annotations, rotations, undo_stack, path, disk, undoLog>>

EraseAt(pg, hits, io) ==
    LET h == EraseHit(hits, annotations, pg)
    IN  IF h # 0
        THEN LET ann == [annotations EXCEPT ![pg] = RemoveUuid(@, UuidOfTags(hits[h]))]
             IN  /\ undo_stack' = PushUndo(undo_stack, annotations, pg)
                 /\ annotations' = ann
                 /\ disk' = DiskAfterSave(disk, path, rotations, ann, io)
                 /\ last' = Op("erase", pg, UuidOfTags(hits[h]), TRUE,
                               SaveOutcome(path, io), PageList(annotations, pg))
                 /\ LogPush(pg)
                 /\ UNCHANGED <<rotations, path>>
        ELSE /\ last' = Op("erase", pg, NoUuid, FALSE, "none", PageList(annotations, pg))
             /\ UNCHANGED <<annotations, rotations, undo_stack, path, disk, undoLog>>

(* _on_click, text tool, on an existing text annotation: the index of edit_data in
   the page's list, 0 when there is none *)
EditTarget(ann, pg, target_uuid) ==
    LET items == PageList(ann, pg)
        Hit(i) == items[i].uuid = target_uuid /\ items[i].type = "text"
    IN  IF target_uuid # NoUuid /\ pg \in DOMAIN ann /\ \E i \in 1 .. Len(items) : Hit(i)
        THEN CHOOSE i \in 1 .. Len(items) : Hit(i) /\ \A j \in 1 .. (i - 1) : ~Hit(j)
        ELSE 0

(* A variant of the edit whose snapshot shares the edited item with the live list *)
EditTextShared(pg, idx, result, size, color, io) ==
    LET ann == [annotations EXCEPT ![pg][idx] =
                    [@ EXCEPT !.text = result.text, !.font = result.font,
                              !.size = size, !.color = color]]
    IN  /\ undo_stack' = PushUndo(undo_stack, ann, pg)
        /\ annotations' = ann
        /\ disk' = DiskAfterSave(disk, path, rotations, ann, io)
        /\ last' = Op("edit", pg, idx, TRUE, SaveOutcome(path, io),
                      PageList(annotations, pg))
        /\ LogPush(pg)
        /\ UNCHANGED <<rotations, path>>

(* the branch "if edit_data: ... if d.result:" of _on_click *)
EditText(pg, idx, result, size, color, io) ==
    LET ann == [annotations EXCEPT ![pg][idx] =
                    [@ EXCEPT !.text = result.text, !.font = result.font,
                              !.size = size, !.color = color]]
    IN  /\ undo_stack' = PushUndo(undo_stack, annotations, pg)
        /\ annotations' = ann
        /\ disk' = DiskAfterSave(disk, path, rotations, ann, io)
        /\ last' = Op("edit", pg, idx, TRUE, SaveOutcome(path, io),
                      PageList(annotations, pg))
        /\ LogPush(pg)
        /\ UNCHANGED <<rotations, path>>

-----------------------------------------------------------------------------
(* AnnotationManager.load *)

(* A variant that gives every item the same id *)
WithUuidConstant(it, id) ==
    [f \in (DOMAIN it) \cup {"uuid"} |-> IF f = "uuid" THEN 1 ELSE it[f]]

WithUuid(it, id) ==
    [f \in (DOMAIN it) \cup {"uuid"} |-> IF f = "uuid" THEN id ELSE it[f]]

(* A variant that gives every item a fresh uuid, whatever the format *)
RECURSIVE CleanItemsFresh(_, _, _)
CleanItemsFresh(items, next, always) ==
    IF items = << >>
    THEN [items |-> << >>, next |-> next, assigned |-> FALSE]
    ELSE LET rest == CleanItemsFresh(Tail(items), next + 1, always)
         IN  [items    |-> <<WithUuid(Head(items), next)>> \o rest.items,
              next     |-> rest.next,
              assigned |-> TRUE]

(* the loop over one page's items: always = legacy format *)
RECURSIVE CleanItems(_, _, _)
CleanItems(items, next, always) ==
    IF items = << >>
    THEN [items |-> << >>, next |-> next, assigned |-> FALSE]
    ELSE LET it   == Head(items)
             need == always \/ "uuid" \notin DOMAIN it
             rest == CleanItems(Tail(items), IF need THEN next + 1 ELSE next, always)
         IN  [items    |-> <<IF need THEN WithUuid(it, next) ELSE it>> \o rest.items,
              next     |-> rest.next,
              assigned |-> need \/ rest.assigned]

(* the loop over the pages, in the order of keys *)
RECURSIVE CleanPages(_, _, _, _)
CleanPages(pagesRaw, keys, next, always) ==
    IF keys = << >>
    THEN [ann |-> EmptyDict, next |-> next, assigned |-> FALSE]
    ELSE LET c    == CleanItems(pagesRaw[Head(keys)], next, always)
             rest == CleanPages(pagesRaw, Tail(keys), c.next, always)
         IN  [ann      |-> DictPut(rest.ann, PageInt(Head(keys)), c.items),
              next     |-> rest.next,
              assigned |-> c.assigned \/ rest.assigned]

KeySeq(d) == SelectSeq(PageStrs, LAMBDA s : s \in DOMAIN d)

(* A variant of load's result that asks for a save whenever the file held data *)
LoadedResaveAlways(raw, next) ==
    IF "version" \in DOMAIN raw
    THEN LET rr == DictGet(raw, "rotations", EmptyDict)
             pp == DictGet(raw, "pages", EmptyDict)
             c  == CleanPages(pp, KeySeq(pp), next, FALSE)
         IN  [ann    |-> c.ann,
              rot    |-> [p \in {PageInt(s) : s \in DOMAIN rr} |-> rr[PageStr(p)]],
              next   |-> c.next,
              resave |-> TRUE]
    ELSE IF DOMAIN raw # {}
    THEN LET c == CleanPages(raw, KeySeq(raw), next, TRUE)
         IN  [ann |-> c.ann, rot |-> EmptyDict, next |-> c.next, resave |-> TRUE]
    ELSE [ann |-> EmptyDict, rot |-> EmptyDict, next |-> next, resave |-> FALSE]

(* what load leaves in memory: [ann, rot, next, resave] *)
Loaded(raw, next) ==
    IF "version" \in DOMAIN raw
    THEN LET rr == DictGet(raw, "rotations", EmptyDict)
             pp == DictGet(raw, "pages", EmptyDict)
             c  == CleanPages(pp, KeySeq(pp), next, FALSE)
         IN  [ann    |-> c.ann,
              rot    |-> [p \in {PageInt(s) : s \in DOMAIN rr} |-> rr[PageStr(p)]],
              next   |-> c.next,
              resave |-> c.assigned]
    ELSE IF DOMAIN raw # {}
    THEN LET c == CleanPages(raw, KeySeq(raw), next, TRUE)
         IN  [ann |-> c.ann, rot |-> EmptyDict, next |-> c.next, resave |-> TRUE]
    ELSE [ann |-> EmptyDict, rot |-> EmptyDict, next |-> next, resave |-> FALSE]

(* A variant of load that leaves the migrated store unsaved *)
LoadNoResave(score, io) ==
    LET base == SidecarPath(score)
        ld   == Loaded(SafeJSONLoad(disk, base), nextId)
    IN  /\ path' = base
        /\ annotations' = ld.ann
        /\ rotations' = ld.rot
        /\ undo_stack' = EmptyDict
        /\ nextId' = ld.next
        /\ disk' = disk
        /\ undoLog' = EmptyDict
        /\ last' = [Op("load", -1, 0, TRUE, IF ld.resave THEN io ELSE "none", << >>)
                        EXCEPT !.warned = LoadWarnings(disk, base)]

Load(score, io) ==
    LET base == SidecarPath(score)
        ld   == Loaded(SafeJSONLoad(disk, base), nextId)
    IN  /\ path' = base
        /\ annotations' = ld.ann
        /\ rotations' = ld.rot
        /\ undo_stack' = EmptyDict
        /\ nextId' = ld.next
        /\ disk' = IF ld.resave
                   THEN DiskAfterSave(disk, base, ld.rot, ld.ann, io)
                   ELSE disk
        /\ undoLog' = EmptyDict
        /\ last' = [Op("load", -1, 0, TRUE, IF ld.resave THEN io ELSE "none", << >>)
                        EXCEPT !.warned = LoadWarnings(disk, base)]

-----------------------------------------------------------------------------
(* Inputs *)

(* Sidecar files found on disk when the program starts: written by an earlier
   session or edited by hand *)
SavedInk == InkAnnot(101, << <<0, 0>>, <<Unit, Unit>> >>, "black", 2)
SavedText == TextAnnot(102, 1, 0, "pp", "Arial", "red", 2)

SampleFiles ==
    { FileAbsent,
      FileJson([version |-> ANNOTATION_VERSION,
                rotations |-> EmptyDict,
                pages |-> [s \in {"0"} |-> <<SavedInk, SavedText>>]]),
      FileJson([version |-> ANNOTATION_VERSION,
                rotations |-> [s \in {"0", "1"} |-> IF s = "0" THEN 90 ELSE 450],
                pages |-> [s \in {"1"} |-> <<SavedText>>]]) }

(* Annotations a caller of add creates, with a fresh uuid *)
NewAnnots(id) ==
    { InkAnnot(id, << <<1, 0>>, <<3, 2>> >>, "black", 2),
      TextAnnot(id, 1, 0, "f", "Arial", "black", 2) }

(* What TextEntryDialog returns and the size and colour controls hold at an edit *)
EditResults == { [text |-> "mf", font |-> "Times", size |-> 3, color |-> "blue"] }

(* _rotate_page is bound to the two rotate buttons and keys *)
Deltas == {90, -90}

(* Sizes the canvas reports: room for one page, room for two side by side *)
OnePageWin == <<12, 8>>
TwoPageWin == <<40, 8>>
Wins == { OnePageWin, TwoPageWin }

(* Multiples of 90 a caller of rotate_page_annotations may pass *)
MgrDeltas == {-90, 90, 180}

ResidentUuids == UNION {Uuids(annotations[p]) : p \in DOMAIN annotations}

(* Results of canvas.find_overlapping handed to erase_at *)
HitLists ==
    { << >>, << <<TagBg>> >>, << << >> >>, << <<TagBg>>, << >> >> }
    \cup { << <<TagBg>>, <<TagAnnot, TagUuid(u)>> >> : u \in ResidentUuids }

-----------------------------------------------------------------------------
(* The annotation manager driven through its interface *)

(* No SafeJSON call is in progress *)
IdleCall ==
    [pc |-> "idle", data |-> [null |-> TRUE], tmp_name |-> FALSE, shown |-> 0,
     ret |-> "none", old |-> FileAbsent, dir |-> TRUE, kept |-> FALSE,
     loaded |-> [null |-> TRUE]]
NoCall ==
    /\ fs_dir = TRUE
    /\ fs_tmp = FileAbsent
    /\ call = IdleCall

(* The library before any directory is scanned *)
NoDir == "None"
IdleLib ==
    [scores |-> {}, last_directory |-> NoDir, cursor |-> "", workers |-> EmptyDict,
     after |-> << >>, started |-> 0, requested |-> NoDir]

(* No pen stroke is in progress *)
NoLayout == [p |-> -1, x |-> 0, y |-> 0, w |-> 0, h |-> 0, rot |-> 0]

(* self._resize_job = None *)
NoJob == 0

(* The manager and the viewer right after construction.  root.timers maps the
   id of each timer of root.after that has neither run nor been cancelled to
   the time left before it is due; root.issued counts the ids handed out.
   root.since is the time since the last resize event that scheduled a render
   (not counted beyond the delay), root.renders the deferred renders run
   since that event and root.burst the number of such events that came less
   than the delay after the one before. *)
Unopened ==
    /\ annotations = EmptyDict
    /\ rotations = EmptyDict
    /\ undo_stack = EmptyDict
    /\ path = NoPath
    /\ nextId = 1
    /\ last = [op |-> "init", pg |-> -1, arg |-> 0, ret |-> TRUE, saved |-> "none",
               before |-> << >>, prev |-> "init", prevpg |-> -1, warned |-> 0]
    /\ undoLog = EmptyDict
    /\ nops = 0
    /\ doc = NoDoc
    /\ current_page = 0
    /\ page_layout = << >>
    /\ canvas = << >>
    /\ tool = "nav"
    /\ current_stroke = << >>
    /\ resize_job = NoJob
    /\ root = [mapped |-> FALSE, timers |-> EmptyDict, issued |-> 0,
               since |-> RESIZE_DEBOUNCE_MS, renders |-> 0, burst |-> 0]
    /\ pointer = <<0, 0>>
    /\ pen_down = NoLayout
    /\ lib = IdleLib

Init ==
    /\ Unopened
    /\ disk \in [SidecarPaths -> SampleFiles]
    /\ win \in Wins
    /\ NoCall

MgrLoad ==
    \E score \in ScorePaths, io \in IOResults :
        nops < MaxOps /\ Tick /\ Load(score, io) /\ UNCHANGED <<appVars, storeVars>>

MgrAdd ==
    \E pg \in Pages, a \in NewAnnots(nextId), io \in IOResults :
        nops < MaxOps /\ Tick /\ Add(pg, a, io) /\ nextId' = nextId + 1
        /\ UNCHANGED <<appVars, storeVars>>

MgrEraseAt ==
    \E pg \in Pages, hits \in HitLists, io \in IOResults :
        nops < MaxOps /\ Tick /\ EraseAt(pg, hits, io) /\ UNCHANGED nextId
        /\ UNCHANGED <<appVars, storeVars>>

MgrEditText ==
    \E pg \in DOMAIN annotations, u \in ResidentUuids, r \in EditResults, io \in IOResults :
        /\ nops < MaxOps
        /\ EditTarget(annotations, pg, u) # 0
        /\ Tick
        /\ EditText(pg, EditTarget(annotations, pg, u), r, r.size, r.color, io)
        /\ UNCHANGED nextId
        /\ UNCHANGED <<appVars, storeVars>>

MgrUndo ==
    \E pg \in Pages, io \in IOResults :
        nops < MaxOps /\ Tick /\ Undo(pg, io) /\ UNCHANGED nextId /\ UNCHANGED <<appVars, storeVars>>

MgrRotate ==
    \E pg \in Pages, delta \in MgrDeltas, io \in IOResults :
        nops < MaxOps /\ Tick /\ RotatePageAnnotations(pg, delta, io) /\ UNCHANGED nextId
        /\ UNCHANGED <<appVars, storeVars>>

MgrClear ==
    /\ nops < MaxOps /\ Tick /\ Clear /\ UNCHANGED nextId
    /\ UNCHANGED <<doc, current_page, win, page_layout, canvas, tool, resize_job, root, storeVars, pointer, pen_down, lib>>

MgrNext ==
    \/ MgrLoad
    \/ MgrAdd
    \/ MgrEraseAt
    \/ MgrEditText
    \/ MgrUndo
    \/ MgrRotate
    \/ MgrClear

(* The manager never reads the window *)
MgrInit == Init /\ win = OnePageWin

SpecMgr == MgrInit /\ [][MgrNext]_vars

-----------------------------------------------------------------------------
(* Properties of the annotation manager *)

Stepped == nops' = nops + 1
StackOf(stk, pg) == DictGet(stk, pg, << >>)
Bound == path # NoPath

(* C1: in a bound state, add(pg, A) immediately followed by undo(pg) returns
   True and leaves page pg's list equal to the list before the add. *)
C1_AddThenUndoRestores ==
    [][ (Stepped /\ Bound /\ last.op = "add" /\ last'.op = "undo" /\ last'.pg = last.pg)
        => (last'.ret /\ PageList(annotations', last.pg) = last.before) ]_vars

C1_Witness ==
    /\ Bound
    /\ last.op = "undo" /\ last.prev = "add" /\ last.prevpg = last.pg /\ last.ret
    /\ Len(PageList(annotations, last.pg)) >= 2
    /\ Len(StackOf(undo_stack, last.pg)) >= 1

(* A step pushed the pre-mutation list of pg on pg's stack and left the other
   stacks alone *)
PushedSnapshot(pg) ==
    LET old == StackOf(undo_stack, pg)
        new == StackOf(undo_stack', pg)
    IN  /\ Len(new) >= 1
        /\ new[Len(new)] = PageList(annotations, pg)
        /\ SubSeq(new, 1, Len(new) - 1) \in {old, IF old = << >> THEN old ELSE Tail(old)}
        /\ \A q \in Pages \ {pg} : StackOf(undo_stack', q) = StackOf(undo_stack, q)

Mutated(pg) == PageList(annotations', pg) # PageList(annotations, pg)

(* C2, as claimed: every operation that mutates a page's annotations (add, erase,
   text edit, rotate_page_annotations) first pushes a snapshot of the page's
   list on the page's undo stack. *)
C2_EveryMutationSnapshots ==
    [][ (Stepped /\ last'.op \in {"add", "erase", "edit", "rotate"} /\ Mutated(last'.pg))
        => PushedSnapshot(last'.pg) ]_vars

(* C2, amended: add, erase and text edit push a snapshot of the page's list
   before they change it; rotate_page_annotations changes the list and pushes
   nothing, leaving every undo stack as it was. *)
C2_MutationsSnapshotExceptRotate ==
    [][ /\ (Stepped /\ last'.op \in {"add", "erase", "edit"} /\ Mutated(last'.pg))
            => PushedSnapshot(last'.pg)
        /\ (Stepped /\ last'.op = "rotate") => undo_stack' = undo_stack ]_vars

C2_Witness ==
    /\ last.op = "rotate" /\ last.prev = "edit"
    /\ PageList(annotations, last.pg) # last.before
    /\ Len(StackOf(undo_stack, last.pg)) >= 1

(* C4: undo(pg) on a page whose undo history is empty or was never created
   returns False and changes nothing: annotations, rotations, undo stacks and
   the sidecar file stay as they are, and no save is attempted. *)
C4_UndoUnderflowNoOp ==
    [][ (Stepped /\ last'.op = "undo" /\ StackOf(undo_stack, last'.pg) = << >>)
        => /\ last'.ret = FALSE
           /\ last'.saved = "none"
           /\ UNCHANGED <<annotations, rotations, undo_stack, disk>> ]_vars

C4_Witness ==
    /\ Bound
    /\ last.op = "undo" /\ ~last.ret
    /\ last.pg \in DOMAIN undo_stack
    /\ Len(PageList(annotations, last.pg)) >= 1
    /\ disk[path].kind = "json"

(* C5: a successful undo(pg) replaces only pg's list, by pg's most recent
   snapshot, and pops only pg's stack; the lists and stacks of the other pages
   and the rotation map are unchanged. *)
C5_UndoTouchesOnlyItsPage ==
    [][ (Stepped /\ last'.op = "undo" /\ last'.ret)
        => LET pg == last'.pg
               st == StackOf(undo_stack, pg)
           IN  /\ st # << >>
               /\ annotations'[pg] = st[Len(st)]
               /\ undo_stack'[pg] = SubSeq(st, 1, Len(st) - 1)
               /\ \A q \in Pages \ {pg} :
                     /\ (q \in DOMAIN annotations') = (q \in DOMAIN annotations)
                     /\ PageList(annotations', q) = PageList(annotations, q)
                     /\ (q \in DOMAIN undo_stack') = (q \in DOMAIN undo_stack)
                     /\ StackOf(undo_stack', q) = StackOf(undo_stack, q)
               /\ rotations' = rotations ]_vars

C5_Witness ==
    /\ last.op = "undo" /\ last.ret
    /\ \E q \in Pages \ {last.pg} :
          /\ PageList(annotations, q) # << >>
          /\ StackOf(undo_stack, q) # << >>
    /\ DOMAIN rotations # {}

(* The 90-degree step of the claim, and k of them *)
StepCW(pt) == <<Unit - pt[2], pt[1]>>
StepsCW(pt, k) ==
    CASE k = 0 -> pt
      [] k = 1 -> StepCW(pt)
      [] k = 2 -> StepCW(StepCW(pt))
      [] k = 3 -> StepCW(StepCW(StepCW(pt)))

AnchorPoints(a) ==
    IF a.type = "ink" THEN a.points ELSE << <<a.x, a.y>> >>

(* C6: for delta a multiple of 90, rotate_page_annotations(pg, delta) moves
   every ink point and text anchor of page pg by (delta / 90) mod 4 steps
   (nx, ny) -> (1 - ny, nx), sets rotations[pg] to (old + delta) mod 360 and
   leaves the other pages' annotations and rotations unchanged; the ink
   [[0,0],[1,1]] on page 0 rotated by 90 becomes [[1,0],[0,1]], rotations[0] = 90. *)
C6_RotateMovesPagePoints ==
    [][ (Stepped /\ last'.op = "rotate" /\ last'.arg % 90 = 0)
        => LET pg    == last'.pg
               delta == last'.arg
               k     == (delta \div 90) % 4
               old   == PageList(annotations, pg)
               new   == PageList(annotations', pg)
           IN  /\ Len(new) = Len(old)
               /\ \A i \in 1 .. Len(old) :
                     /\ new[i].uuid = old[i].uuid /\ new[i].type = old[i].type
                     /\ Len(AnchorPoints(new[i])) = Len(AnchorPoints(old[i]))
                     /\ \A j \in 1 .. Len(AnchorPoints(old[i])) :
                           AnchorPoints(new[i])[j] = StepsCW(AnchorPoints(old[i])[j], k)
               /\ rotations'[pg] = (DictGet(rotations, pg, 0) + delta) % 360
               /\ \A q \in Pages \ {pg} :
                     /\ PageList(annotations', q) = PageList(annotations, q)
                     /\ DictGet(rotations', q, 0) = DictGet(rotations, q, 0)
               /\ (pg = 0 /\ delta = 90 /\ DictGet(rotations, 0, 0) = 0
                   /\ old # << >> /\ old[1].type = "ink"
                   /\ old[1].points = << <<0, 0>>, <<Unit, Unit>> >>)
                  => (new[1].points = << <<Unit, 0>>, <<0, Unit>> >> /\ rotations'[0] = 90) ]_vars

C6_Witness ==
    /\ last.op = "rotate" /\ last.pg = 0 /\ last.arg = 90
    /\ last.before # << >>
    /\ last.before[1].type = "ink"
    /\ last.before[1].points = << <<0, 0>>, <<Unit, Unit>> >>
    /\ annotations[0][1].points = << <<Unit, 0>>, <<0, Unit>> >>
    /\ Len(annotations[0]) >= 2 /\ annotations[0][2].type = "text"
    /\ rotations[0] = 90
    /\ PageList(annotations, 1) # << >>

ValidRotations == {0, 90, 180, 270}

(* C10: in every reachable state every value held in the rotation map is one of
   0, 90, 180, 270, also right after load, whatever the sidecar contains. *)
C10_RotationsNormalized ==
    \A pg \in DOMAIN rotations : rotations[pg] \in ValidRotations

-----------------------------------------------------------------------------
(* Long undo histories: a document is loaded, one page receives a run of adds
   and then a run of undos.  The run is long enough to fill the deque. *)

DeepLoad ==
    \E score \in ScorePaths :
        nops = 0 /\ Tick /\ Load(score, "ok") /\ UNCHANGED <<appVars, storeVars>>

DeepAdd ==
    \E pg \in Pages :
        /\ nops < MaxDeepOps
        /\ last.op \in {"load", "add"}
        /\ DOMAIN undo_stack \subseteq {pg}
        /\ Tick
        /\ Add(pg, InkAnnot(nextId, << <<1, 0>>, <<3, 2>> >>, "black", 2), "ok")
        /\ nextId' = nextId + 1
        /\ UNCHANGED <<appVars, storeVars>>

DeepUndo ==
    \E pg \in DOMAIN undo_stack :
        /\ nops < MaxDeepOps
        /\ Tick
        /\ Undo(pg, "ok")
        /\ UNCHANGED nextId
        /\ UNCHANGED <<appVars, storeVars>>

DeepNext == DeepLoad \/ DeepAdd \/ DeepUndo

SpecUndoDepth == MgrInit /\ [][DeepNext]_vars

Min(a, b) == IF a < b THEN a ELSE b

(* C3: a page's undo stack never holds more than UNDO_DEPTH = 20 snapshots and a
   push on a full stack drops the oldest: after n snapshot-pushing mutations with
   no undo in between, exactly min(n, 20) consecutive undos return True, the
   k-th of them restoring the k-th most recent snapshot, and the next returns
   False. *)
C3_UndoDepthBounded ==
    /\ \A pg \in DOMAIN undo_stack : Len(undo_stack[pg]) <= UNDO_DEPTH
    /\ (last.op = "undo" /\ LogOf(last.pg).clean)
       => LET n == Len(LogOf(last.pg).pushed)
              u == LogOf(last.pg).undone
          IN  IF last.ret
              THEN /\ u >= 1 /\ u <= Min(n, UNDO_DEPTH)
                   /\ PageList(annotations, last.pg) = LogOf(last.pg).pushed[n - u + 1]
              ELSE u = Min(n, UNDO_DEPTH)

C3_Witness ==
    /\ last.op = "undo" /\ ~last.ret /\ last.prev = "undo"
    /\ LogOf(last.pg).clean
    /\ Len(LogOf(last.pg).pushed) > UNDO_DEPTH
    /\ LogOf(last.pg).undone = UNDO_DEPTH
    /\ PageList(annotations, last.pg) # LogOf(last.pg).pushed[1]

-----------------------------------------------------------------------------
(* Rendering: _render_pdf, _draw_vectors, _draw_single_annot *)

TotalPages == Cardinality(Pages)

(* page.rect of the PDF, in points, as <<width, height>> *)
PageSize(p) == <<3, 4>>

EffSize(p, rot) ==
    IF (rot % 360) \in {90, 270}
    THEN <<PageSize(p)[2], PageSize(p)[1]>>
    ELSE PageSize(p)

(* The pixmap of a length at zoom zn / zd: the rasterizer rounds up *)
CeilDiv(a, b) == -((-a) \div b)
PixLen(len, zn, zd) == CeilDiv(len * zn, zd)

Layout(p, x, y, w, h, rot) == [p |-> p, x |-> x, y |-> y, w |-> w, h |-> h, rot |-> rot]

(* win_w, win_h of _render_pdf: the nominal size when the canvas reports a
   width below 10 *)
ViewportUsed(wn) == IF wn[1] < MinWinW THEN <<NominalW, NominalH>> ELSE wn

(* _render_pdf up to self.page_layout, with no setlist session *)
RenderLayout(cp, wn, rot) ==
    LET win_w == ViewportUsed(wn)[1]
        win_h == ViewportUsed(wn)[2]
        rot1  == DictGet(rot, cp, 0)
        e1    == EffSize(cp, rot1)
        two   == /\ 2 * e1[1] * win_h + Sep * e1[2] <= win_w * e1[2]
                 /\ cp + 1 < TotalPages
    IN  IF two
        THEN LET rot2 == DictGet(rot, cp + 1, 0)
                 e2   == EffSize(cp + 1, rot2)
                 w1   == PixLen(e1[1], win_h, e1[2])
                 h1   == PixLen(e1[2], win_h, e1[2])
                 w2   == PixLen(e2[1], win_h, e1[2])
                 h2   == PixLen(e2[2], win_h, e1[2])
                 total_w == w1 + w2 + Sep
                 max_h == IF h1 >= h2 THEN h1 ELSE h2
                 x_off == (win_w - total_w) \div 2
                 y_off == (win_h - max_h) \div 2
             IN  << Layout(cp, x_off, y_off, w1, h1, rot1),
                    Layout(cp + 1, x_off + w1 + Sep, y_off, w2, h2, rot2) >>
        ELSE LET byW == win_w * e1[2] <= win_h * e1[1]
                 zn  == IF byW THEN win_w ELSE win_h
                 zd  == IF byW THEN e1[1] ELSE e1[2]
                 w1  == PixLen(e1[1], zn, zd)
                 h1  == PixLen(e1[2], zn, zd)
             IN  << Layout(cp, (win_w - w1) \div 2, (win_h - h1) \div 2, w1, h1, rot1) >>

(* Canvas items.  pts are device positions in units of 1 / Unit pixel. *)
Item(kind, tags, pts) == [kind |-> kind, tags |-> tags, pts |-> pts]

BgItem(layouts) ==
    LET f == layouts[1]
        l == layouts[Len(layouts)]
        max_h == IF f.h >= l.h THEN f.h ELSE l.h
    IN  Item("image", <<TagBg>>,
             << <<f.x * Unit, f.y * Unit>>, <<(l.x + l.w) * Unit, (f.y + max_h) * Unit>> >>)

(* _transform_pt: the view position of a stored point under the page's rotation *)
ViewPt(n, rot) ==
    CASE rot = 90  -> <<n[2], Unit - n[1]>>
      [] rot = 180 -> <<Unit - n[1], Unit - n[2]>>
      [] rot = 270 -> <<Unit - n[2], n[1]>>
      [] OTHER     -> n

TransformPt(n, l) ==
    LET v == ViewPt(n, l.rot % 360)
    IN  <<l.x * Unit + v[1] * l.w, l.y * Unit + v[2] * l.h>>

DrawSingleAnnot(a, l) ==
    LET tag == <<TagAnnot, TagUuid(a.uuid)>>
    IN  IF a.type = "ink"
        THEN IF 2 * Len(a.points) >= 4
             THEN << Item("line", tag, [i \in 1 .. Len(a.points) |-> TransformPt(a.points[i], l)]) >>
             ELSE << >>
        ELSE IF a.type = "text"
        THEN << Item("text", tag, << TransformPt(<<a.x, a.y>>, l) >>) >>
        ELSE << >>

RECURSIVE Concat(_)
Concat(ss) == IF ss = << >> THEN << >> ELSE Head(ss) \o Concat(Tail(ss))

DrawPage(l, ann) ==
    Concat([i \in 1 .. Len(PageList(ann, l.p)) |-> DrawSingleAnnot(PageList(ann, l.p)[i], l)])

IsAnnotItem(it) == \E i \in 1 .. Len(it.tags) : it.tags[i].k = "annot"

(* _draw_vectors on canvas cv *)
DrawVectors(cv, layouts, ann) ==
    SelectSeq(cv, LAMBDA it : ~IsAnnotItem(it))
        \o Concat([k \in 1 .. Len(layouts) |-> DrawPage(layouts[k], ann)])

(* _render_pdf: canvas.delete("all"), the page image, then _draw_vectors *)
RenderCanvas(layouts, ann) == DrawVectors(<< BgItem(layouts) >>, layouts, ann)

Render(cp, rot, ann) ==
    /\ page_layout' = RenderLayout(cp, win, rot)
    /\ canvas' = RenderCanvas(RenderLayout(cp, win, rot), ann)

(* _get_layout_at: the index of the placement record under (x, y), 0 for None *)
GetLayoutAt(layouts, x, y) ==
    LET In(k) == /\ layouts[k].x <= x /\ x <= layouts[k].x + layouts[k].w
                 /\ layouts[k].y <= y /\ y <= layouts[k].y + layouts[k].h
    IN  IF \E k \in 1 .. Len(layouts) : In(k)
        THEN CHOOSE k \in 1 .. Len(layouts) : In(k) /\ \A j \in 1 .. (k - 1) : ~In(j)
        ELSE 0

(* (event.x - l['x']) / l['w'] on the grid *)
ToNorm(px, origin, size) == ((px - origin) * Unit) \div size

(* The bounding box of an item meets the square of half-width r around (x, y) *)
NearItem(it, x, y, r) ==
    LET xs == {it.pts[i][1] : i \in 1 .. Len(it.pts)}
        ys == {it.pts[i][2] : i \in 1 .. Len(it.pts)}
    IN  /\ \E a \in xs : a <= (x + r) * Unit
        /\ \E a \in xs : a >= (x - r) * Unit
        /\ \E b \in ys : b <= (y + r) * Unit
        /\ \E b \in ys : b >= (y - r) * Unit

(* canvas.find_overlapping(x - 20, y - 20, x + 20, y + 20): the tags of the items *)
FindOverlapping(cv, x, y, r) ==
    LET hit == SelectSeq(cv, LAMBDA it : NearItem(it, x, y, r))
    IN  [i \in 1 .. Len(hit) |-> hit[i].tags]

(* canvas.gettags(canvas.find_closest(x, y, halo=5)): the topmost item within the halo *)
FindClosestTags(cv, x, y, r) ==
    LET hit == FindOverlapping(cv, x, y, r)
    IN  IF hit = << >> THEN << >> ELSE hit[Len(hit)]

-----------------------------------------------------------------------------
(* The viewer's event handlers *)

(* Pointer positions: grid points of the pages on screen that the grid
   represents exactly, and a point off the canvas *)
SampleGrid == { <<0, 0>>, <<Unit, 0>> }

GridPoints(l) ==
    { <<l.x + (g[1] * l.w) \div Unit, l.y + (g[2] * l.h) \div Unit>> :
        g \in {gg \in SampleGrid : (gg[1] * l.w) % Unit = 0 /\ (gg[2] * l.h) % Unit = 0} }

ScreenPoints == UNION {GridPoints(page_layout[k]) : k \in 1 .. Len(page_layout)}
OffCanvas == <<-1, -1>>

(* What TextEntryDialog returns with OK, and what the size and colour controls hold *)
DialogResults == { [text |-> "f", font |-> "Arial", size |-> 2, color |-> "black"] }

(* In the behaviours of Spec the sidecar's directory stays writable *)
UiIOResults == {"ok"}

mgrFrame == UNCHANGED <<annotations, rotations, undo_stack, path, disk, nextId, last, undoLog, nops>>

(* No messagebox is open: the handlers of user input can run *)
NoDialog == call.pc # "warning"

(* _load_pdf, when fitz.open succeeds and SafeJSON.load shows no warning *)
OpenScore ==
    \E score \in ScorePaths, io \in UiIOResults :
        /\ NoDialog
        /\ LoadWarnings(disk, SidecarPath(score)) = 0
        /\ nops < MaxUiOps
        /\ Tick
        /\ doc' = score
        /\ current_page' = 0
        /\ Load(score, io)
        /\ root' = [root EXCEPT !.mapped = TRUE]
        /\ tool' = "nav"
        /\ Render(0, rotations', annotations')
        /\ UNCHANGED <<win, current_stroke, resize_job, storeVars, pointer, pen_down, lib>>

(* _load_pdf, when fitz.open raises: the old document is closed, an error is
   shown, the display and the manager stay as they are *)
OpenFail ==
    /\ NoDialog
    /\ doc' = NoDoc
    /\ mgrFrame
    /\ UNCHANGED <<current_page, win, page_layout, canvas, tool, current_stroke, resize_job,
                   root, storeVars, pointer, pen_down, lib>>

(* _close_score *)
CloseScore ==
    /\ NoDialog
    /\ root.mapped
    /\ doc' = NoDoc
    /\ root' = [root EXCEPT !.mapped = FALSE]
    /\ mgrFrame
    /\ UNCHANGED <<current_page, win, page_layout, canvas, tool, current_stroke, resize_job,
                   storeVars, pointer, pen_down, lib>>

(* _goto_page *)
GotoPage(p) ==
    IF doc # NoDoc /\ 0 <= p /\ p < TotalPages
    THEN /\ current_page' = p
         /\ Render(p, rotations, annotations)
    ELSE UNCHANGED <<current_page, page_layout, canvas>>

PageStep == IF Len(page_layout) = 2 THEN 2 ELSE 1
Max(a, b) == IF a > b THEN a ELSE b

(* _next_page, with no setlist session *)
NextPage ==
    /\ doc # NoDoc /\ tool # "text"
    /\ current_page + PageStep < TotalPages
    /\ GotoPage(current_page + PageStep)
    /\ mgrFrame
    /\ UNCHANGED <<doc, win, tool, current_stroke, resize_job, root, storeVars, pointer, pen_down, lib>>

(* _prev_page, with no setlist session *)
PrevPage ==
    /\ doc # NoDoc /\ tool # "text"
    /\ GotoPage(Max(0, current_page - PageStep))
    /\ mgrFrame
    /\ UNCHANGED <<doc, win, tool, current_stroke, resize_job, root, storeVars, pointer, pen_down, lib>>

Tools == {"nav", "pen", "text", "eraser"}

(* _set_tool *)
SetTool ==
    \E t \in Tools :
        /\ root.mapped
        /\ tool' = t
        /\ mgrFrame
        /\ UNCHANGED <<doc, current_page, win, page_layout, canvas, current_stroke, resize_job, root, storeVars, pointer, pen_down, lib>>

(* _on_click with the pen *)
ClickPen ==
    \E pt \in ScreenPoints :
        /\ root.mapped /\ tool = "pen"
        /\ GetLayoutAt(page_layout, pt[1], pt[2]) # 0
        /\ current_stroke' = << pt >>
        /\ pointer' = pt
        /\ pen_down' = page_layout[GetLayoutAt(page_layout, pt[1], pt[2])]
        /\ UNCHANGED lib
        /\ mgrFrame
        /\ UNCHANGED <<doc, current_page, win, page_layout, canvas, tool, resize_job, root, storeVars>>

(* _on_click with the text tool, the dialog closed with OK *)
ClickText ==
    \E pt \in ScreenPoints, d \in DialogResults, io \in UiIOResults :
        LET k      == GetLayoutAt(page_layout, pt[1], pt[2])
            l      == page_layout[k]
            target == UuidOfTags(FindClosestTags(canvas, pt[1], pt[2], ClosestHalo))
            idx    == EditTarget(annotations, l.p, target)
        IN  /\ root.mapped /\ tool = "text"
            /\ k # 0
            /\ nops < MaxUiOps
            /\ Tick
            /\ IF idx # 0
               THEN /\ EditText(l.p, idx, d, d.size, d.color, io)
                    /\ UNCHANGED nextId
               ELSE /\ Add(l.p, TextAnnot(nextId, ToNorm(pt[1], l.x, l.w), ToNorm(pt[2], l.y, l.h),
                                          d.text, d.font, d.color, d.size), io)
                    /\ nextId' = nextId + 1
            /\ canvas' = DrawVectors(canvas, page_layout, annotations')
            /\ pointer' = pt
            /\ UNCHANGED <<pen_down, lib>>
            /\ UNCHANGED <<doc, current_page, win, page_layout, tool, current_stroke, resize_job, root, storeVars>>

(* erase_at called from _on_click and _on_drag with the eraser *)
EraserAt(pt, io) ==
    LET k == GetLayoutAt(page_layout, pt[1], pt[2])
        l == page_layout[k]
    IN  /\ root.mapped /\ tool = "eraser"
        /\ k # 0
        /\ nops < MaxUiOps
        /\ Tick
        /\ EraseAt(l.p, FindOverlapping(canvas, pt[1], pt[2], EraseHalo), io)
        /\ canvas' = IF last'.ret
                     THEN DrawVectors(canvas, page_layout, annotations')
                     ELSE canvas
        /\ pointer' = pt
        /\ UNCHANGED <<pen_down, lib>>
        /\ UNCHANGED <<nextId, doc, current_page, win, page_layout, tool, current_stroke,
                       resize_job, root, storeVars>>

ClickEraser == \E pt \in ScreenPoints, io \in UiIOResults : EraserAt(pt, io)

(* _on_drag with the pen: the stroke grows and an untagged segment is drawn *)
DragPen ==
    \E pt \in ScreenPoints \cup {OffCanvas} :
        /\ root.mapped /\ tool = "pen"
        /\ current_stroke # << >>
        /\ Len(current_stroke) < MaxStroke
        /\ Len(SelectSeq(canvas, LAMBDA it : it.tags = << >>)) < MaxStroke - 1
        /\ current_stroke' = Append(current_stroke, pt)
        /\ canvas' = Append(canvas,
               Item("line", << >>,
                    << <<current_stroke[Len(current_stroke)][1] * Unit,
                         current_stroke[Len(current_stroke)][2] * Unit>>,
                       <<pt[1] * Unit, pt[2] * Unit>> >>))
        /\ pointer' = pt
        /\ UNCHANGED <<pen_down, lib>>
        /\ mgrFrame
        /\ UNCHANGED <<doc, current_page, win, page_layout, tool, resize_job, root, storeVars>>

(* _on_release *)
Release ==
    \E io \in UiIOResults :
        LET k == IF current_stroke = << >> THEN 0
                 ELSE GetLayoutAt(page_layout, current_stroke[1][1], current_stroke[1][2])
            l == page_layout[k]
            norm == [i \in 1 .. Len(current_stroke) |->
                        <<ToNorm(current_stroke[i][1], l.x, l.w),
                          ToNorm(current_stroke[i][2], l.y, l.h)>>]
        IN  /\ root.mapped
            /\ current_stroke # << >>
            /\ current_stroke' = << >>
            /\ IF tool = "pen" /\ Len(current_stroke) > 1 /\ k # 0
               THEN /\ nops < MaxUiOps
                    /\ Tick
                    /\ Add(l.p, InkAnnot(nextId, norm, "black", 2), io)
                    /\ nextId' = nextId + 1
                    /\ canvas' = DrawVectors(canvas, page_layout, annotations')
               ELSE /\ mgrFrame
                    /\ UNCHANGED canvas
            /\ pen_down' = NoLayout
            /\ UNCHANGED lib
            /\ UNCHANGED <<doc, current_page, win, page_layout, tool, resize_job, root, storeVars, pointer>>

(* _undo *)
UndoKey ==
    \E io \in UiIOResults :
        /\ nops < MaxUiOps
        /\ Tick
        /\ Undo(current_page, io)
        /\ canvas' = IF last'.ret
                     THEN DrawVectors(canvas, page_layout, annotations')
                     ELSE canvas
        /\ UNCHANGED <<nextId, doc, current_page, win, page_layout, tool, current_stroke,
                       resize_job, root, storeVars, pointer, pen_down, lib>>

(* _rotate_page *)
RotatePage ==
    \E delta \in Deltas, io \in UiIOResults :
        /\ doc # NoDoc
        /\ nops < MaxUiOps
        /\ Tick
        /\ RotatePageAnnotations(current_page, delta, io)
        /\ Render(current_page, rotations', annotations')
        /\ UNCHANGED <<nextId, doc, current_page, win, tool, current_stroke, resize_job, root, storeVars, pointer, pen_down, lib>>

(* root.after_cancel(id) *)
AfterCancel(timers, id) == [i \in (DOMAIN timers) \ {id} |-> timers[i]]

(* A variant of _on_resize that schedules without cancelling *)
ResizeNoCancel ==
    \E w \in Wins \ {win} :
        /\ root.mapped
        /\ win' = w
        /\ IF doc # NoDoc
           THEN /\ root.issued < MaxResizes
                /\ resize_job' = root.issued + 1
                /\ root' = [root EXCEPT
                               !.timers = DictPut(@, root.issued + 1, RESIZE_DEBOUNCE_MS),
                               !.issued = @ + 1, !.since = 0, !.renders = 0,
                               !.burst = IF root.since < RESIZE_DEBOUNCE_MS THEN @ + 1 ELSE 1]
           ELSE UNCHANGED <<resize_job, root>>
        /\ mgrFrame
        /\ UNCHANGED <<doc, current_page, page_layout, canvas, tool, current_stroke, pointer, pen_down, lib>>
        /\ UNCHANGED storeVars

(* <Configure> of f_display: the canvas has a new size, _on_resize runs *)
Resize ==
    \E w \in Wins \ {win} :
        /\ root.mapped
        /\ win' = w
        /\ IF doc # NoDoc
           THEN /\ root.issued < MaxResizes
                /\ resize_job' = root.issued + 1
                /\ root' = [root EXCEPT
                               !.timers = DictPut(IF resize_job # NoJob
                                                  THEN AfterCancel(@, resize_job) ELSE @,
                                                  root.issued + 1, RESIZE_DEBOUNCE_MS),
                               !.issued = @ + 1, !.since = 0, !.renders = 0,
                               !.burst = IF root.since < RESIZE_DEBOUNCE_MS THEN @ + 1 ELSE 1]
           ELSE UNCHANGED <<resize_job, root>>
        /\ mgrFrame
        /\ UNCHANGED <<doc, current_page, page_layout, canvas, tool, current_stroke, pointer, pen_down, lib>>
        /\ UNCHANGED storeVars

(* Time passes: every timer comes closer to being due *)
Elapse ==
    /\ \/ root.since < RESIZE_DEBOUNCE_MS
       \/ \E id \in DOMAIN root.timers : root.timers[id] > 0
    /\ root' = [root EXCEPT
                   !.timers = [id \in DOMAIN @ |-> Max(0, @[id] - TickMs)],
                   !.since = Min(RESIZE_DEBOUNCE_MS, @ + TickMs)]
    /\ mgrFrame
    /\ UNCHANGED <<doc, current_page, win, page_layout, canvas, tool, current_stroke,
                   resize_job, pointer, pen_down, lib>>
    /\ UNCHANGED storeVars

(* A timer is due and Tk runs its callback, the deferred _render_pdf *)
ResizeRender ==
    \E id \in DOMAIN root.timers :
        /\ root.timers[id] = 0
        /\ root' = [root EXCEPT !.timers = AfterCancel(@, id), !.renders = @ + 1]
        /\ IF doc # NoDoc
           THEN Render(current_page, rotations, annotations)
           ELSE UNCHANGED <<page_layout, canvas>>
        /\ mgrFrame
        /\ UNCHANGED <<doc, current_page, win, tool, current_stroke, resize_job, pointer, pen_down, lib>>
        /\ UNCHANGED storeVars

(* The behaviours of Spec keep the window size they start with: Resize, Elapse
   and ResizeRender are not among its steps *)
Next ==
    \/ OpenScore
    \/ OpenFail
    \/ CloseScore
    \/ NextPage
    \/ PrevPage
    \/ SetTool
    \/ ClickPen
    \/ ClickText
    \/ ClickEraser
    \/ DragPen
    \/ Release
    \/ UndoKey
    \/ RotatePage

Spec == Init /\ [][Next]_vars

-----------------------------------------------------------------------------
(* Where annotations are drawn *)

(* The placement record of page p among layouts, and the index of the canvas
   item tagged with uuid id; 0 when there is none *)
LayoutOf(layouts, p) ==
    IF \E k \in 1 .. Len(layouts) : layouts[k].p = p
    THEN CHOOSE k \in 1 .. Len(layouts) : layouts[k].p = p
    ELSE 0

ItemOf(cv, id) ==
    IF \E i \in 1 .. Len(cv) : UuidOfTags(cv[i].tags) = id
    THEN CHOOSE i \in 1 .. Len(cv) : UuidOfTags(cv[i].tags) = id
    ELSE 0

(* toDevice: a normalized view position placed in the rectangle of l *)
ToDevice(v, l) == <<l.x * Unit + v[1] * l.w, l.y * Unit + v[2] * l.h>>

(* The normalized view position of a device position in the rectangle of l *)
ViewPos(d, l) == <<(d[1] - l.x * Unit) \div l.w, (d[2] - l.y * Unit) \div l.h>>

DevicePoint(pt) == <<pt[1] * Unit, pt[2] * Unit>>

InRect(pt, l) ==
    /\ l.x <= pt[1] /\ pt[1] <= l.x + l.w
    /\ l.y <= pt[2] /\ pt[2] <= l.y + l.h

(* C7: when the user rotates the current page by delta, each annotation of
   that page is afterwards drawn at the clockwise rotation by delta of the
   normalized view position it was drawn at before, so that it stays attached
   to the page content, which the render turns clockwise by delta. *)
C7_RotatedPageKeepsAnnotationsAttached ==
    [][ (Stepped /\ last'.op = "rotate" /\ doc # NoDoc)
        => LET pg == last'.pg
               l0 == page_layout[LayoutOf(page_layout, pg)]
               l1 == page_layout'[LayoutOf(page_layout', pg)]
           IN  \A i \in 1 .. Len(PageList(annotations, pg)) :
                   LET id == PageList(annotations, pg)[i].uuid
                       i0 == ItemOf(canvas, id)
                       i1 == ItemOf(canvas', id)
                   IN  (LayoutOf(page_layout, pg) # 0 /\ i0 # 0)
                       => /\ LayoutOf(page_layout', pg) # 0 /\ i1 # 0
                          /\ Len(canvas'[i1].pts) = Len(canvas[i0].pts)
                          /\ \A j \in 1 .. Len(canvas[i0].pts) :
                                 ViewPos(canvas'[i1].pts[j], l1)
                                   = StepsCW(ViewPos(canvas[i0].pts[j], l0),
                                             (last'.arg \div 90) % 4)
      ]_vars

(* C8: an annotation of a page shown with rotation r in {0, 90, 180, 270} is
   drawn, in the page's placement rectangle, at the device position of its
   stored normalized point turned clockwise by r. *)
C8_DrawnAtClockwiseRotationOfStored ==
    \A k \in 1 .. Len(page_layout) :
        LET l == page_layout[k]
        IN  \A i \in 1 .. Len(PageList(annotations, l.p)) :
                LET a  == PageList(annotations, l.p)[i]
                    it == ItemOf(canvas, a.uuid)
                IN  (l.rot \in ValidRotations /\ l.w > 0 /\ l.h > 0 /\ it # 0)
                    => canvas[it].pts
                         = [j \in 1 .. Len(AnchorPoints(a)) |->
                               ToDevice(StepsCW(AnchorPoints(a)[j], l.rot \div 90), l)]

(* C9: an annotation created from pointer events at device points inside the
   placement rectangle of a page shown with rotation r in {0, 90, 180, 270}
   is drawn at those same device points by the redraw that follows its
   creation. *)
C9_CreatedAnnotationDrawnUnderPointer ==
    [][ (Stepped /\ last'.op = "add" /\ doc # NoDoc)
        => LET l   == page_layout[LayoutOf(page_layout, last'.pg)]
               it  == ItemOf(canvas', nextId)
               new == PageList(annotations', last'.pg)
               at  == IF new[Len(new)].type = "ink"
                      THEN [j \in 1 .. Len(current_stroke) |-> current_stroke[j]]
                      ELSE << pointer' >>
           IN  (/\ l.rot \in ValidRotations /\ l.w > 0 /\ l.h > 0
                /\ \A j \in 1 .. Len(at) : InRect(at[j], l))
               => /\ it # 0
                  /\ canvas'[it].pts = [j \in 1 .. Len(at) |-> DevicePoint(at[j])]
      ]_vars

-----------------------------------------------------------------------------
(* rotate_page_annotations called with any integer delta *)

AnyDeltas == {-135, -90, 45, 90, 100, 450}

AnyLoad ==
    \E score \in ScorePaths :
        nops = 0 /\ Tick /\ Load(score, "ok") /\ UNCHANGED <<appVars, storeVars>>

AnyRotate ==
    \E pg \in Pages, delta \in AnyDeltas, io \in IOResults :
        /\ nops > 0 /\ nops < MaxOps
        /\ Tick
        /\ RotatePageAnnotations(pg, delta, io)
        /\ UNCHANGED nextId
        /\ UNCHANGED <<appVars, storeVars>>

AnyNext == AnyLoad \/ AnyRotate

SpecRotateAny == MgrInit /\ [][AnyNext]_vars

(* C11: for every integer delta, rotate_page_annotations(pg, delta) changes
   rotations[pg] by exactly 90 * steps modulo 360, where steps =
   (delta // 90) mod 4 is the number of steps applied to the coordinates, so
   that rotations[pg] stays a multiple of 90. *)
C11_RotationFollowsSteps ==
    [][ (Stepped /\ last'.op = "rotate")
        => LET pg    == last'.pg
               steps == (last'.arg \div 90) % 4
               old   == DictGet(rotations, pg, 0)
           IN  /\ pg \in DOMAIN rotations'
               /\ rotations'[pg] = (old + 90 * steps) % 360
               /\ (old % 90 = 0) => (rotations'[pg] % 90 = 0) ]_vars

-----------------------------------------------------------------------------
(* What json.dump writes and json.load reads back.  A value is null, an
   integer, a string, a list or a dict; a string is the sequence of its code
   points; a dict key is a string or an integer. *)

JNull == [null |-> TRUE]
JInt(i) == [int |-> i]
JStr(cs) == [str |-> cs]
JList(q) == [list |-> q]
JDict(f) == [dict |-> f]
StrKey(cs) == [kt |-> "str", s |-> cs]
IntKey(i) == [kt |-> "int", s |-> <<i>>]
EmptyJDict == JDict(<< >>)

(* str(i) for i >= 0, as code points *)
RECURSIVE IntStr(_)
IntStr(i) == IF i < 10 THEN <<48 + i>> ELSE IntStr(i \div 10) \o <<48 + (i % 10)>>

HexDigit(n) == IF n < 10 THEN 48 + n ELSE 87 + n
HexValue(c) == IF c < 58 THEN c - 48 ELSE c - 87

(* A variant that writes a backslash as it is *)
EscapeCharNoBackslash(c) ==
    IF c = 34 THEN <<92, c>>
    ELSE IF c > 126
    THEN <<92, 117, HexDigit((c \div 4096) % 16), HexDigit((c \div 256) % 16),
           HexDigit((c \div 16) % 16), HexDigit(c % 16)>>
    ELSE <<c>>

(* json.encoder with ensure_ascii: the text between the quotes *)
EscapeChar(c) ==
    IF c = 34 \/ c = 92 THEN <<92, c>>
    ELSE IF c > 126
    THEN <<92, 117, HexDigit((c \div 4096) % 16), HexDigit((c \div 256) % 16),
           HexDigit((c \div 16) % 16), HexDigit(c % 16)>>
    ELSE <<c>>

RECURSIVE EscapeStr(_)
EscapeStr(cs) == IF cs = << >> THEN << >> ELSE EscapeChar(Head(cs)) \o EscapeStr(Tail(cs))

(* json.decoder scanstring *)
RECURSIVE UnescapeStr(_)
UnescapeStr(t) ==
    IF t = << >> THEN << >>
    ELSE IF t[1] = 92 /\ Len(t) >= 6 /\ t[2] = 117
    THEN <<4096 * HexValue(t[3]) + 256 * HexValue(t[4]) + 16 * HexValue(t[5]) + HexValue(t[6])>>
         \o UnescapeStr(SubSeq(t, 7, Len(t)))
    ELSE IF t[1] = 92 /\ Len(t) >= 2
    THEN <<t[2]>> \o UnescapeStr(SubSeq(t, 3, Len(t)))
    ELSE <<t[1]>> \o UnescapeStr(Tail(t))

(* A key as json.dump writes it: an integer key becomes the string str(i) *)
DumpKey(k) == IF k.kt = "int" THEN EscapeStr(IntStr(k.s[1])) ELSE EscapeStr(k.s)

(* The document json.dump(data, f) writes: the same structure with its strings
   written escaped and its keys written as strings *)
RECURSIVE JsonText(_)
JsonText(v) ==
    IF "str" \in DOMAIN v THEN [str |-> EscapeStr(v.str)]
    ELSE IF "list" \in DOMAIN v THEN [list |-> [i \in 1 .. Len(v.list) |-> JsonText(v.list[i])]]
    ELSE IF "dict" \in DOMAIN v
    THEN [dict |-> [t \in {DumpKey(k) : k \in DOMAIN v.dict} |->
                      JsonText(v.dict[CHOOSE k \in DOMAIN v.dict : DumpKey(k) = t])]]
    ELSE v

(* The value json.load(f) builds from a document *)
RECURSIVE JsonValue(_)
JsonValue(d) ==
    IF "str" \in DOMAIN d THEN JStr(UnescapeStr(d.str))
    ELSE IF "list" \in DOMAIN d THEN JList([i \in 1 .. Len(d.list) |-> JsonValue(d.list[i])])
    ELSE IF "dict" \in DOMAIN d
    THEN JDict([k \in {StrKey(UnescapeStr(t)) : t \in DOMAIN d.dict} |->
                   JsonValue(d.dict[CHOOSE t \in DOMAIN d.dict : StrKey(UnescapeStr(t)) = k])])
    ELSE d

-----------------------------------------------------------------------------
(* SafeJSON.save step by step, on the file system it writes to.  The file at
   Target and the temp file hold a document, an unparseable text, or the
   part of a document written so far. *)

Target == CHOOSE f \in SidecarPaths : TRUE

FilePartial(n) == [kind |-> "partial", n |-> n]

(* Strings: "a", "p", u-umlaut, a quarter note followed by a backslash, "u"
   and a quote *)
SampleValues ==
    { JDict(StrKey(<<97>>) :> JInt(1)),
      JDict(StrKey(<<97>>) :> JNull),
      JDict(StrKey(<<252>>) :> JStr(<<9833, 92, 117, 34>>)),
      JDict(StrKey(<<97>>) :> JList(<<JDict(StrKey(<<97>>) :> JNull), JInt(2)>>)),
      JDict(StrKey(<<112>>) :> JDict(IntKey(0) :> JList(<<JDict(StrKey(<<97>>) :> JInt(1))>>))) }

(* the locals and the position of a call of SafeJSON.save(Target, v); old and
   dir are what Target held and whether its directory existed when the call
   began, kept is set when os.remove failed *)
mgrViewFrame ==
    UNCHANGED <<annotations, rotations, undo_stack, path, nextId, last, undoLog,
                doc, current_page, win, page_layout, canvas, tool, current_stroke,
                resize_job, root, pointer, pen_down, lib>>

(* A step inside a call leaves the manager and the viewer alone *)
storeFrame == mgrViewFrame /\ UNCHANGED nops

SaveCall ==
    \E v \in SampleValues :
        /\ call.pc = "idle"
        /\ nops < MaxCalls
        /\ Tick
        /\ call' = [IdleCall EXCEPT !.pc = "check_dir", !.data = v,
                                    !.old = disk[Target], !.dir = fs_dir]
        /\ UNCHANGED <<disk, fs_dir, fs_tmp>>
        /\ mgrViewFrame

(* if dir_name and not os.path.exists(dir_name): showerror, return False *)
SaveCheckDir ==
    /\ call.pc = "check_dir"
    /\ call' = IF fs_dir
               THEN [call EXCEPT !.pc = "mkstemp"]
               ELSE [call EXCEPT !.pc = "done", !.shown = @ + 1, !.ret = "False"]
    /\ UNCHANGED <<disk, fs_dir, fs_tmp>>
    /\ storeFrame

(* fd, tmp_name = tempfile.mkstemp(...) *)
SaveMkstemp ==
    \E io \in IOResults :
        /\ call.pc = "mkstemp"
        /\ IF io = "ok"
           THEN /\ fs_tmp' = FilePartial(0)
                /\ call' = [call EXCEPT !.pc = "dump", !.tmp_name = TRUE]
           ELSE /\ call' = [call EXCEPT !.pc = "except"]
                /\ UNCHANGED fs_tmp
        /\ UNCHANGED <<disk, fs_dir>>
        /\ storeFrame

(* A variant that opens the target itself and writes there *)
SaveDumpInPlace ==
    \E io \in IOResults :
        /\ call.pc = "dump"
        /\ IF io = "ok"
           THEN IF disk[Target].kind # "partial"
                THEN /\ disk' = [disk EXCEPT ![Target] = FilePartial(1)]
                     /\ UNCHANGED call
                ELSE /\ disk' = [disk EXCEPT ![Target] = FileJson(JsonText(call.data))]
                     /\ call' = [call EXCEPT !.pc = "replace"]
           ELSE /\ call' = [call EXCEPT !.pc = "except"]
                /\ UNCHANGED disk
        /\ UNCHANGED <<fs_tmp, fs_dir>>
        /\ storeFrame

(* with os.fdopen(fd, 'w') as f: json.dump(data, f): the text reaches the
   temp file piece by piece *)
SaveDump ==
    \E io \in IOResults :
        /\ call.pc = "dump"
        /\ IF io = "ok"
           THEN IF fs_tmp = FilePartial(0)
                THEN /\ fs_tmp' = FilePartial(1)
                     /\ UNCHANGED call
                ELSE /\ fs_tmp' = FileJson(JsonText(call.data))
                     /\ call' = [call EXCEPT !.pc = "replace"]
           ELSE /\ call' = [call EXCEPT !.pc = "except"]
                /\ UNCHANGED fs_tmp
        /\ UNCHANGED <<disk, fs_dir>>
        /\ storeFrame

(* os.replace(tmp_name, filepath); return True *)
SaveReplace ==
    \E io \in IOResults :
        /\ call.pc = "replace"
        /\ IF io = "ok"
           THEN /\ disk' = [disk EXCEPT ![Target] = fs_tmp]
                /\ fs_tmp' = FileAbsent
                /\ call' = [call EXCEPT !.pc = "done", !.ret = "True"]
           ELSE /\ call' = [call EXCEPT !.pc = "except"]
                /\ UNCHANGED <<disk, fs_tmp>>
        /\ UNCHANGED fs_dir
        /\ storeFrame

(* A variant that only logs the failure *)
SaveExceptSilent ==
    /\ call.pc = "except"
    /\ call' = IF call.tmp_name /\ fs_tmp.kind # "absent"
               THEN [call EXCEPT !.pc = "remove"]
               ELSE [call EXCEPT !.pc = "done", !.ret = "False"]
    /\ UNCHANGED <<disk, fs_dir, fs_tmp>>
    /\ storeFrame

(* except Exception: showerror; if tmp_name and os.path.exists(tmp_name) *)
SaveExcept ==
    /\ call.pc = "except"
    /\ call' = IF call.tmp_name /\ fs_tmp.kind # "absent"
               THEN [call EXCEPT !.pc = "remove", !.shown = @ + 1]
               ELSE [call EXCEPT !.pc = "done", !.shown = @ + 1, !.ret = "False"]
    /\ UNCHANGED <<disk, fs_dir, fs_tmp>>
    /\ storeFrame

(* try: os.remove(tmp_name) except OSError: pass; return False *)
SaveRemove ==
    \E io \in IOResults :
        /\ call.pc = "remove"
        /\ IF io = "ok"
           THEN /\ fs_tmp' = FileAbsent
                /\ call' = [call EXCEPT !.pc = "done", !.ret = "False"]
           ELSE /\ call' = [call EXCEPT !.pc = "done", !.ret = "False", !.kept = TRUE]
                /\ UNCHANGED fs_tmp
        /\ UNCHANGED <<disk, fs_dir>>
        /\ storeFrame

(* The process stops in the middle of the call *)
SaveStop ==
    /\ call.pc \in {"check_dir", "mkstemp", "dump", "replace", "except", "remove"}
    /\ call' = [call EXCEPT !.pc = "stopped"]
    /\ UNCHANGED <<disk, fs_dir, fs_tmp>>
    /\ storeFrame

(* SafeJSON.load(filepath) *)
LoadValue(d, filepath) ==
    IF d[filepath].kind = "json" THEN JsonValue(d[filepath].data) ELSE EmptyJDict

(* SafeJSON.load(Target) after the call returned, or in the next run of the
   program *)
SaveThenLoad ==
    /\ call.pc \in {"done", "stopped"}
    /\ call' = [call EXCEPT !.pc = "loaded", !.loaded = LoadValue(disk, Target)]
    /\ UNCHANGED <<disk, fs_dir, fs_tmp>>
    /\ storeFrame

(* The caller goes on; the next call of save makes a temp file of its own *)
SaveReturn ==
    /\ call.pc \in {"done", "loaded"}
    /\ call.ret # "none"
    /\ fs_tmp = FileAbsent
    /\ call' = IdleCall
    /\ UNCHANGED <<disk, fs_dir, fs_tmp>>
    /\ storeFrame

StoreInit ==
    /\ Unopened
    /\ win = OnePageWin
    /\ fs_dir \in BOOLEAN
    /\ disk \in [SidecarPaths ->
                    IF fs_dir
                    THEN {FileAbsent, FileCorrupt} \cup {FileJson(JsonText(v)) : v \in SampleValues}
                    ELSE {FileAbsent}]
    /\ fs_tmp = FileAbsent
    /\ call = IdleCall

StoreNext ==
    \/ SaveCall
    \/ SaveCheckDir
    \/ SaveMkstemp
    \/ SaveDump
    \/ SaveReplace
    \/ SaveExcept
    \/ SaveRemove
    \/ SaveStop
    \/ SaveThenLoad
    \/ SaveReturn

SpecStore == StoreInit /\ [][StoreNext]_vars

-----------------------------------------------------------------------------
(* Properties of SafeJSON *)

Returned(r) == call.pc \in {"done", "loaded"} /\ call.ret = r

(* C12: at every step of SafeJSON.save, and if the process stops or a step
   fails there, the target holds its complete previous content (or is absent
   if it was) or the complete new document, never a part of one. *)
C12_TargetOldOrNew ==
    /\ disk[Target].kind # "partial"
    /\ call.pc # "idle"
       => disk[Target] \in {call.old, FileJson(JsonText(call.data))}

C12_Witness ==
    /\ call.pc = "stopped"
    /\ fs_tmp = FilePartial(1)
    /\ call.old.kind = "json"
    /\ call.old # FileJson(JsonText(call.data))
    /\ disk[Target] = call.old

(* C13, as claimed: a save that fails returns False having shown exactly one
   error, leaves no temp file, creates neither the missing directory nor the
   target, and leaves the target's content as it was. *)
C13_FailedSaveLeavesNothing ==
    Returned("False")
    => /\ call.shown = 1
       /\ fs_tmp = FileAbsent
       /\ fs_dir = call.dir
       /\ disk[Target] = call.old

(* C13, amended: a save that fails returns False having shown exactly one
   error, creates neither the missing directory nor the target and leaves the
   target's content as it was; it removes its temp file, except when
   os.remove fails as well: then the temp file stays. *)
C13_FailedSaveCleansUpIfItCan ==
    Returned("False")
    => /\ call.shown = 1
       /\ (fs_tmp # FileAbsent) = call.kept
       /\ call.kept => call.tmp_name
       /\ fs_dir = call.dir
       /\ disk[Target] = call.old
       /\ ~call.dir => (~call.tmp_name /\ disk[Target] = FileAbsent)

C13_Witness ==
    /\ Returned("False")
    /\ call.kept
    /\ fs_tmp.kind = "json"
    /\ call.old.kind = "json"

(* A value with every integer key of its dicts replaced by the key's decimal
   string *)
RECURSIVE StrKeyed(_)
StrKeyed(v) ==
    IF "list" \in DOMAIN v THEN JList([i \in 1 .. Len(v.list) |-> StrKeyed(v.list[i])])
    ELSE IF "dict" \in DOMAIN v
    THEN LET AsStr(k) == IF k.kt = "int" THEN StrKey(IntStr(k.s[1])) ELSE k
         IN  JDict([t \in {AsStr(k) : k \in DOMAIN v.dict} |->
                       StrKeyed(v.dict[CHOOSE k \in DOMAIN v.dict : AsStr(k) = t])])
    ELSE v

(* C14, as claimed: SafeJSON.save(path, d) returning True followed by
   SafeJSON.load(path) returns a value deep-equal to d, for every value d
   that save accepts, the page -> annotation-list map included. *)
C14_SaveLoadReturnsSame ==
    (call.pc = "loaded" /\ call.ret = "True") => call.loaded = call.data

(* C14, amended: SafeJSON.save(path, d) returning True followed by
   SafeJSON.load(path) returns d with every integer dict key replaced by its
   decimal string; the result is deep-equal to d exactly when d has no
   integer key. *)
C14_SaveLoadStringifiesKeys ==
    (call.pc = "loaded" /\ call.ret = "True")
    => /\ call.loaded = StrKeyed(call.data)
       /\ (call.loaded = call.data) = (StrKeyed(call.data) = call.data)

C14_Witness ==
    /\ call.pc = "loaded" /\ call.ret = "True"
    /\ call.loaded # call.data
    /\ call.old.kind = "json"

-----------------------------------------------------------------------------
(* The manager opened on sidecar files that cannot be parsed *)

UnparseableFiles == {FileCorrupt, FileUndecodable}

CorruptInit ==
    /\ Unopened
    /\ disk \in [SidecarPaths -> UnparseableFiles]
    /\ win = OnePageWin
    /\ NoCall

SpecCorrupt == CorruptInit /\ [][MgrNext]_vars

(* C15: loading a sidecar file that exists but cannot be parsed shows exactly
   one warning, leaves the manager bound with empty annotations, rotations
   and undo history, triggers no re-save and leaves the file as it was. *)
C15_UnparseableLoadWarnsOnce ==
    [][(last'.op = "load" /\ Stepped /\ disk[path'] \in UnparseableFiles)
       => /\ last'.warned = 1
          /\ path' # NoPath
          /\ annotations' = EmptyDict
          /\ rotations' = EmptyDict
          /\ undo_stack' = EmptyDict
          /\ last'.saved = "none"
          /\ disk' = disk]_vars

(* C16: once a document was opened on an unparseable sidecar file, no add,
   erase, undo, text edit or rotate of that session alters the file. *)
C16_UnparseableFileNeverOverwritten ==
    [][(/\ Stepped
        /\ path # NoPath
        /\ disk[path] \in UnparseableFiles
        /\ last'.op \in {"add", "erase", "undo", "edit", "rotate"})
       => disk'[path] = disk[path]]_vars

-----------------------------------------------------------------------------
(* Persistence of the manager's state *)

(* The memory <<annotations, rotations, undo_stack>> that the operation
   recorded in last' produces from the current state when its save succeeds *)
MemoryAfter ==
    LET pg     == last'.pg
        arg    == last'.arg
        items  == PageList(annotations, pg)
        stack  == StackOf(undo_stack, pg)
        pushed == PushUndo(undo_stack, annotations, pg)
    IN  CASE last'.op = "add" ->
               { <<DictPut(annotations, pg, Append(items, a)), rotations, pushed>> :
                   a \in NewAnnots(nextId) }
          [] last'.op = "erase" ->
               { <<[annotations EXCEPT ![pg] = RemoveUuid(@, arg)], rotations, pushed>> }
          [] last'.op = "undo" ->
               IF Len(stack) = 0 THEN {}
               ELSE { <<DictPut(annotations, pg, stack[Len(stack)]), rotations,
                        [undo_stack EXCEPT ![pg] = SubSeq(stack, 1, Len(stack) - 1)]>> }
          [] last'.op = "rotate" ->
               { <<IF pg \in DOMAIN annotations
                   THEN [annotations EXCEPT ![pg] = RotateAnnotationCoords(@, arg)]
                   ELSE annotations,
                   DictPut(rotations, pg, (DictGet(rotations, pg, 0) + arg) % 360),
                   undo_stack>> }
          [] last'.op = "edit" ->
               { <<[annotations EXCEPT ![pg][arg] =
                       [@ EXCEPT !.text = r.text, !.font = r.font,
                                 !.size = r.size, !.color = r.color]],
                   rotations, pushed>> : r \in EditResults }
          [] OTHER -> {}

Mutators == {"add", "erase", "undo", "rotate", "edit"}

(* C17: when the save inside add, erase_at, undo, rotate_page_annotations or
   a text edit fails, the annotations, rotations and undo stacks in memory
   are those the operation produces when its save succeeds, and the sidecar
   file keeps its previous content. *)
C17_FailedSaveKeepsMutation ==
    [][(Stepped /\ last'.op \in Mutators /\ last'.saved = "failed")
       => /\ <<annotations', rotations', undo_stack'>> \in MemoryAfter
          /\ <<annotations', rotations', undo_stack'>> # <<annotations, rotations, undo_stack>>
          /\ path' = path
          /\ disk' = disk]_vars

C17_Witness ==
    /\ last.op = "erase" /\ last.saved = "failed"
    /\ last.prev = "add" /\ last.prevpg = last.pg
    /\ disk[path].kind = "json"
    /\ PageList(annotations, last.pg) # last.before
    /\ disk[path].data.pages # StrKeys(annotations)

(* What the sidecar file of the open document holds, as load reads it back:
   the integer page keys restored *)
FileData == disk[path].data
IntKeys(d) == [p \in {PageInt(s) : s \in DOMAIN d} |-> d[PageStr(p)]]
NonZero(rot) == {p \in DOMAIN rot : rot[p] % 360 # 0}

(* C18: after every mutating operation whose save succeeded, the sidecar
   file holds the complete current state: the version, every page's
   annotation list and all non-zero rotations, whatever earlier saves did. *)
C18_SavedFileIsCurrentState ==
    (last.op \in Mutators /\ last.saved = "ok")
    => /\ path # NoPath
       /\ disk[path].kind = "json"
       /\ DOMAIN FileData = {"version", "rotations", "pages"}
       /\ FileData.version = ANNOTATION_VERSION
       /\ IntKeys(FileData.pages) = annotations
       /\ IntKeys(FileData.rotations) = [p \in NonZero(rotations) |-> rotations[p]]

C18_Witness ==
    /\ last.op = "edit" /\ last.saved = "ok"
    /\ DOMAIN FileData.pages = {"0", "1"}
    /\ DOMAIN FileData.rotations = {"0", "1"}
    /\ FileData.pages["1"] # << >>
    /\ PageList(annotations, last.pg) # last.before

(* C19: after every successful save the file's rotations map holds exactly
   the pages whose rotation in memory is non-zero modulo 360, with their
   values: no entry of value 0, no non-zero page left out. *)
C19_OnlyNonZeroRotationsSaved ==
    last.saved = "ok"
    => /\ disk[path].kind = "json"
       /\ DOMAIN FileData.rotations = {PageStr(p) : p \in NonZero(rotations)}
       /\ \A s \in DOMAIN FileData.rotations :
              /\ FileData.rotations[s] % 360 # 0
              /\ FileData.rotations[s] = rotations[PageInt(s)]

C19_Witness ==
    /\ last.op = "rotate" /\ last.saved = "ok"
    /\ last.pg \in DOMAIN rotations
    /\ rotations[last.pg] = 0
    /\ PageStr(last.pg) \notin DOMAIN FileData.rotations
    /\ FileData.rotations # EmptyDict

(* The rotation a page is shown with *)
EffectiveRotation(rot, p) == DictGet(rot, p, 0) % 360

(* C20: in every bound state whose last save succeeded, clear followed by
   load of the same score reads back the same annotations on every page
   (order, uuid, fields) and the same effective rotation for every page,
   assigns no uuid and re-saves nothing; every load leaves the undo history
   empty. *)
C20_ReopenReproducesState ==
    /\ [](last.saved = "ok"
          => LET ld == Loaded(SafeJSONLoad(disk, path), nextId)
             IN  /\ path # NoPath
                 /\ ld.ann = annotations
                 /\ \A p \in Pages :
                        EffectiveRotation(ld.rot, p) = EffectiveRotation(rotations, p)
                 /\ ~ld.resave
                 /\ ld.next = nextId)
    /\ [][(Stepped /\ last'.op = "load")
          => /\ undo_stack' = EmptyDict
             /\ path' \in SidecarPaths]_vars

C20_Witness ==
    /\ last.op = "load" /\ last.prev = "clear"
    /\ annotations # EmptyDict
    /\ \E p \in Pages : \E i \in 1 .. Len(PageList(annotations, p)) :
           annotations[p][i].uuid \notin {SavedInk.uuid, SavedText.uuid}
    /\ rotations # EmptyDict
    /\ undo_stack = EmptyDict

-----------------------------------------------------------------------------
(* The manager opened on sidecar files of older formats *)

WithoutUuid(a) == [f \in (DOMAIN a) \ {"uuid"} |-> a[f]]

(* The oldest format is a flat map page -> items; its items carry no id, or
   one that an editor left there.  A versioned store may hold items without
   id. *)
LegacyFiles ==
    { FileJson([s \in {"0", "1"} |->
                   IF s = "0" THEN <<WithoutUuid(SavedInk), SavedText>>
                   ELSE <<WithoutUuid(SavedText)>>]),
      FileJson([version |-> ANNOTATION_VERSION,
                rotations |-> EmptyDict,
                pages |-> [s \in {"0"} |-> <<SavedInk, WithoutUuid(SavedText)>>]]) }

LegacyInit ==
    /\ Unopened
    /\ disk \in [SidecarPaths -> LegacyFiles]
    /\ win = OnePageWin
    /\ NoCall

SpecLegacy == LegacyInit /\ [][MgrNext]_vars

IsLegacy(f) == f.kind = "json" /\ "version" \notin DOMAIN f.data /\ DOMAIN f.data # {}

(* The ids of the annotations resident in ann, page by page *)
PagesOf(ann) == [i \in 1 .. Len(KeySeq(StrKeys(ann))) |-> ann[PageInt(KeySeq(StrKeys(ann))[i])]]
RECURSIVE SeqSum(_)
SeqSum(ns) == IF ns = << >> THEN 0 ELSE Head(ns) + SeqSum(Tail(ns))
ItemCount(ann) == SeqSum([i \in 1 .. Len(PagesOf(ann)) |-> Len(PagesOf(ann)[i])])
IdsOf(ann) ==
    UNION { {ann[p][i].uuid : i \in {j \in 1 .. Len(ann[p]) : "uuid" \in DOMAIN ann[p][j]}} :
            p \in DOMAIN ann }

(* What load of a legacy file does in memory: every item gets a fresh id *)
LegacyLoadAssignsFresh ==
    /\ ItemCount(annotations') = nextId' - nextId
    /\ IdsOf(annotations') = nextId .. (nextId' - 1)
    /\ last'.saved \in IOResults

(* A load of the same score right after this step reads back the resident
   ids and assigns none *)
SecondLoadKeepsIds ==
    LET again == Loaded(SafeJSONLoad(disk', path'), nextId')
    IN  /\ again.ann = annotations'
        /\ again.next = nextId'
        /\ ~again.resave

LegacyLoadStep == Stepped /\ last'.op = "load" /\ IsLegacy(disk[path'])

(* C21, as claimed: loading a legacy unversioned sidecar gives every item a
   fresh id and re-saves the store, so that a second load of the same score
   yields exactly those ids and assigns none. *)
C21_LegacyIdsStable ==
    [][LegacyLoadStep => (LegacyLoadAssignsFresh /\ SecondLoadKeepsIds)]_vars

(* C21, amended: loading a legacy unversioned sidecar gives every item a
   fresh id and attempts the re-save in the versioned format; when the
   re-save succeeds, a second load yields exactly those ids and assigns
   none; when it fails the file stays legacy and a second load assigns new
   ids. *)
C21_LegacyIdsStableOnceSaved ==
    [][LegacyLoadStep
       => /\ LegacyLoadAssignsFresh
          /\ last'.saved = "ok"
             => (~IsLegacy(disk'[path']) /\ SecondLoadKeepsIds)
          /\ last'.saved = "failed"
             => (disk' = disk /\ ~SecondLoadKeepsIds)]_vars

C21_Witness ==
    /\ last.op = "load" /\ last.prev = "load" /\ last.saved = "none"
    /\ nextId = 4
    /\ IdsOf(annotations) = {1, 2, 3}
    /\ ~IsLegacy(disk[path])

(* C22: once a document is loaded, every resident annotation carries an id
   and no two annotations of the document share one. *)
C22_IdsUnique ==
    Bound => /\ \A p \in DOMAIN annotations : \A i \in 1 .. Len(annotations[p]) :
                    "uuid" \in DOMAIN annotations[p][i]
             /\ Cardinality(IdsOf(annotations)) = ItemCount(annotations)

C22_Witness ==
    /\ Bound
    /\ last.op = "undo" /\ last.ret
    /\ Cardinality(IdsOf(annotations)) >= 3
    /\ \E id \in IdsOf(annotations) : id < SavedInk.uuid
    /\ SavedInk.uuid \in IdsOf(annotations)

-----------------------------------------------------------------------------
(* erase_at *)

EraseStep == Stepped /\ last'.op = "erase"
NothingChanged ==
    /\ UNCHANGED <<annotations, rotations, undo_stack, path, disk, undoLog, canvas>>
    /\ last'.saved = "none"
NoIdTag(hits) == \A i \in 1 .. Len(hits) : UuidOfTags(hits[i]) = NoUuid

(* C23: erase_at with no id-tagged primitive among the items found in the
   halo (only the background image, untagged stroke segments, or nothing)
   acts on none of them, returns False and changes nothing: no annotation
   removed, no snapshot pushed, nothing saved, no canvas item deleted; an
   item tagged as background is never acted on. *)
C23_EraseWithoutTaggedItemIsNoOp ==
    /\ [](\A pg \in Pages : \A hits \in HitLists :
              LET h == EraseHit(hits, annotations, pg)
              IN  /\ NoIdTag(hits) => h = 0
                  /\ h # 0 => ~HasBg(hits[h]))
    /\ [][(EraseStep /\ last'.arg = NoUuid) => (~last'.ret /\ NothingChanged)]_vars

C23_Witness ==
    /\ last.op = "erase" /\ ~last.ret /\ last.arg = NoUuid
    /\ last.pg \in DOMAIN annotations
    /\ annotations[last.pg] # << >>
    /\ last.prev = "load"

(* C24: erase_at returns True exactly when an annotation was removed from
   the page's list; then exactly the annotation with the matched id is
   removed; otherwise no snapshot is pushed and nothing is saved. *)
C24_EraseTrueIffRemoved ==
    [][EraseStep
       => LET pg      == last'.pg
              removed == PageList(annotations', pg) # PageList(annotations, pg)
          IN  /\ last'.ret = removed
              /\ removed => /\ last'.arg \in Uuids(PageList(annotations, pg))
                            /\ annotations'[pg] = RemoveUuid(annotations[pg], last'.arg)
              /\ ~removed => NothingChanged]_vars

-----------------------------------------------------------------------------
(* Closed and failed documents *)

Unbound ==
    /\ annotations = EmptyDict
    /\ rotations = EmptyDict
    /\ undo_stack = EmptyDict
    /\ path = NoPath

(* C26: closing the document discards all annotation state: whenever the
   score display is closed, from _close_score until the next load, the
   manager's annotations, rotations and undo history are empty and its
   sidecar path is None. *)
C26_ClosedMeansUnbound == ~root.mapped => Unbound

(* C27: while no document is open (before the first open, after
   _close_score, after a failed open) no UI event changes the annotations,
   the rotations or the undo stacks or writes a sidecar file. *)
C27_NoDocumentNoMutation ==
    [][(doc = NoDoc /\ doc' = NoDoc)
       => UNCHANGED <<annotations, rotations, undo_stack, disk>>]_vars

-----------------------------------------------------------------------------
(* The eraser among several annotations *)

(* A page with two text annotations, at its top left and top right corners *)
TwoTextsFile ==
    FileJson([version |-> ANNOTATION_VERSION,
              rotations |-> EmptyDict,
              pages |-> [s \in {"0"} |->
                            <<TextAnnot(101, 0, 0, "p", "Arial", "red", 2),
                              TextAnnot(102, Unit, 0, "f", "Arial", "red", 2)>>]])

EraseInit ==
    /\ Unopened
    /\ disk = [f \in SidecarPaths |-> TwoTextsFile]
    /\ win \in Wins
    /\ NoCall

SpecErase == EraseInit /\ [][Next]_vars

(* The square of the distance, in units of 1 / Unit pixel, from the pointer
   to the bounding box of a canvas item *)
BoxDist2(it, pt) ==
    LET xs == {it.pts[j][1] : j \in 1 .. Len(it.pts)}
        ys == {it.pts[j][2] : j \in 1 .. Len(it.pts)}
        Lo(S) == CHOOSE m \in S : \A n \in S : m <= n
        Hi(S) == CHOOSE m \in S : \A n \in S : m >= n
        Gap(S, c) == IF c < Lo(S) THEN Lo(S) - c ELSE IF c > Hi(S) THEN c - Hi(S) ELSE 0
        dx == Gap(xs, pt[1] * Unit)
        dy == Gap(ys, pt[2] * Unit)
    IN  dx * dx + dy * dy

IdTagged(it) == UuidOfTags(it.tags) # NoUuid

(* C25: when several id-tagged primitives lie within the erase tolerance of
   the pointer, the annotation erase_at removes is the one whose primitive is
   closest to the pointer. *)
C25_EraseTakesClosest ==
    [][(EraseStep /\ last'.ret)
       => LET taken == canvas[ItemOf(canvas, last'.arg)]
          IN  \A k \in 1 .. Len(canvas) :
                  (IdTagged(canvas[k]) /\ NearItem(canvas[k], pointer'[1], pointer'[2], EraseHalo))
                  => BoxDist2(taken, pointer') <= BoxDist2(canvas[k], pointer')]_vars

-----------------------------------------------------------------------------
(* Resizing the display while scores are opened and closed *)

ResizeNext ==
    \/ OpenScore
    \/ OpenFail
    \/ CloseScore
    \/ Resize
    \/ Elapse
    \/ ResizeRender

SpecResize == Init /\ [][ResizeNext]_vars

Pending == DOMAIN root.timers

(* C29: resize re-rendering is debounced. At any time at most one deferred
   re-render is pending; a resize event with a document open leaves exactly
   the timer it schedules, due 150 ms later; the deferred re-render runs only
   when 150 ms have passed since the last resize event, and after the last
   event of a burst it is either still pending or has run exactly once. *)
C29_ResizeDebounced ==
    /\ [](Cardinality(Pending) <= 1)
    /\ [](root.renders <= 1)
    /\ []((root.issued > 0 /\ root.renders = 0) => Pending = {resize_job})
    /\ [][root'.issued # root.issued
          => root'.timers = DictPut(EmptyDict, resize_job', RESIZE_DEBOUNCE_MS)]_vars
    /\ [][root'.renders = root.renders + 1
          => /\ root.since >= RESIZE_DEBOUNCE_MS
             /\ root'.renders = 1
             /\ root'.timers = EmptyDict]_vars

(* A burst of two or more resize events has been followed by its re-render *)
C29_Witness ==
    /\ doc # NoDoc
    /\ root.burst >= 2
    /\ root.renders = 1

-----------------------------------------------------------------------------
(* Two pages side by side when the second page is turned *)

(* A sidecar that turns the second page by a quarter *)
TurnedSecondFile ==
    FileJson([version |-> ANNOTATION_VERSION,
              rotations |-> [s \in {"1"} |-> 90],
              pages |-> [s \in {"0"} |-> <<SavedInk>>]])

(* A window exactly as wide as two upright pages and the gap *)
TightWin == <<16, 8>>

LayoutInit ==
    /\ Unopened
    /\ disk = [f \in SidecarPaths |-> TurnedSecondFile]
    /\ win \in {TightWin, TwoPageWin}
    /\ NoCall

SpecLayout == LayoutInit /\ [][Next]_vars

(* C30: in dual-page mode the combined image block lies inside the viewport:
   the x offset is not negative and the two pages with the gap between them
   are not wider than the viewport. *)
C30_TwoPagesInsideViewport ==
    Len(page_layout) = 2
    => /\ page_layout[1].x >= 0
       /\ page_layout[1].w + Sep + page_layout[2].w <= win[1]

-----------------------------------------------------------------------------
(* Switching from one score to another whose sidecar cannot be parsed *)

OtherScore == "other.pdf"
SwitchScores == ScorePaths \cup {OtherScore}

(* _load_pdf up to the messagebox.showwarning inside SafeJSON.load: the new
   document is open, load has set _path, and the dialog runs the event loop
   before load goes on *)
OpenBegin ==
    \E score \in SwitchScores :
        /\ NoDialog
        /\ LoadWarnings(disk, SidecarPath(score)) = 1
        /\ nops < MaxUiOps
        /\ doc' = score
        /\ current_page' = 0
        /\ path' = SidecarPath(score)
        /\ call' = [IdleCall EXCEPT !.pc = "warning"]
        /\ UNCHANGED <<annotations, rotations, undo_stack, disk, nextId, last, undoLog, nops,
                       win, page_layout, canvas, tool, current_stroke, resize_job, root,
                       pointer, pen_down, lib, fs_dir, fs_tmp>>

(* The warning is dismissed: the rest of load and of _load_pdf *)
OpenEnd ==
    \E io \in UiIOResults :
        /\ call.pc = "warning"
        /\ Tick
        /\ Load(doc, io)
        /\ root' = [root EXCEPT !.mapped = TRUE]
        /\ tool' = "nav"
        /\ Render(0, rotations', annotations')
        /\ call' = IdleCall
        /\ UNCHANGED <<doc, current_page, win, current_stroke, resize_job, pointer, pen_down, lib,
                       fs_dir, fs_tmp>>

SwitchInit ==
    /\ Unopened
    /\ disk = [f \in {SidecarPath(p) : p \in SwitchScores} |->
                  IF f = SidecarPath(OtherScore)
                  THEN FileCorrupt
                  ELSE FileJson([version |-> ANNOTATION_VERSION,
                                 rotations |-> EmptyDict,
                                 pages |-> [s \in {"0"} |-> <<SavedInk, SavedText>>]])]
    /\ win \in Wins
    /\ NoCall

SwitchNext ==
    \/ OpenScore
    \/ OpenBegin
    \/ OpenEnd
    \/ Resize
    \/ Elapse
    \/ ResizeRender

SpecSwitch == SwitchInit /\ [][SwitchNext]_vars

(* The ids of the annotations the sidecar f holds on disk d *)
UuidsOnFile(d, f) ==
    IF d[f].kind = "json" /\ "pages" \in DOMAIN d[f].data
    THEN IdsOf(d[f].data.pages)
    ELSE {}

DrawnUuids(cv) == {UuidOfTags(cv[i].tags) : i \in 1 .. Len(cv)} \ {NoUuid}

(* C28: no cross-document leakage. While nothing is edited, the resident
   annotations are those of the sidecar the manager's path names, at every
   point where a deferred callback can run, and whatever a step draws on the
   pages of the open document are annotations of that document's sidecar. *)
C28_NoCrossDocumentLeak ==
    /\ [](path # NoPath => ResidentUuids \subseteq UuidsOnFile(disk, path))
    /\ [][canvas' # canvas
          => DrawnUuids(canvas') \subseteq UuidsOnFile(disk', SidecarPath(doc'))]_vars

-----------------------------------------------------------------------------
(* Rendering into a canvas that reports a degenerate size *)

DegenerateWins == { <<0, 0>>, <<0, 8>>, <<-1, 8>>, <<16, 0>>, <<16, -1>> }

DegenerateInit ==
    /\ Unopened
    /\ disk \in [SidecarPaths -> SampleFiles]
    /\ win \in DegenerateWins
    /\ NoCall

DegenerateNext ==
    \/ OpenScore
    \/ OpenFail
    \/ CloseScore
    \/ NextPage
    \/ PrevPage
    \/ RotatePage

SpecDegenerate == DegenerateInit /\ [][DegenerateNext]_vars

(* C31: for every viewport whose width or height is zero or negative the
   layout is computed from the nominal size 1200 x 850, so the zoom is
   positive and every placement rectangle has positive width and height. *)
C31_DegenerateViewportIsNominal ==
    (doc # NoDoc /\ (win[1] <= 0 \/ win[2] <= 0))
    => /\ ViewportUsed(win) = <<NominalW, NominalH>>
       /\ \A k \in 1 .. Len(page_layout) : page_layout[k].w > 0 /\ page_layout[k].h > 0

-----------------------------------------------------------------------------
(* Stored coordinates *)

InUnitSquare(pt) == pt[1] \in 0 .. Unit /\ pt[2] \in 0 .. Unit

(* C32: every stored annotation coordinate, each ink point and each text
   anchor, lies within the unit square in every reachable state, also when
   a pen drag has left the page's placement rectangle. *)
C32_CoordsInUnitSquare ==
    \A pg \in DOMAIN annotations :
        \A n \in 1 .. Len(annotations[pg]) :
            \A m \in 1 .. Len(AnchorPoints(annotations[pg][n])) :
                InUnitSquare(AnchorPoints(annotations[pg][n])[m])

-----------------------------------------------------------------------------
(* Rotating there and back *)

InverseDeltas == {0, 90, 180, 270, 360, -90, -180}

InverseRotate ==
    \E pg \in Pages, delta \in InverseDeltas, io \in IOResults :
        /\ nops > 0 /\ nops < MaxOps
        /\ Tick
        /\ RotatePageAnnotations(pg, delta, io)
        /\ UNCHANGED nextId
        /\ UNCHANGED <<appVars, storeVars>>

InverseNext == AnyLoad \/ InverseRotate

SpecInverse == MgrInit /\ [][InverseNext]_vars

UnitSquare == (0 .. Unit) \X (0 .. Unit)

(* C33: rotation is invertible. For every delta of the rotate step and every
   point p of the unit square, rotating p by delta and then by -delta mod 360
   returns p, and -90 acts as +270; the page list a rotate step by delta
   leaves, rotated by -delta mod 360 or by -delta, is the list before it. *)
C33_RotationInvertible ==
    [][ (Stepped /\ last'.op = "rotate")
        => LET d  == last'.arg
               pg == last'.pg
           IN  /\ \A p \in UnitSquare :
                      /\ RotatePoint(RotatePoint(p, d), (-d) % 360) = p
                      /\ RotatePoint(p, -90) = RotatePoint(p, 270)
               /\ RotateAnnotationCoords(PageList(annotations', pg), (-d) % 360)
                      = PageList(annotations, pg)
               /\ RotateAnnotationCoords(PageList(annotations', pg), -d)
                      = PageList(annotations, pg) ]_vars

(* A page that holds annotations has been rotated by -90 *)
C33_Witness ==
    /\ last.op = "rotate"
    /\ last.arg = -90
    /\ last.before # << >>
    /\ PageList(annotations, last.pg) # last.before

-----------------------------------------------------------------------------
(* Undo and the frame of the page's rotation *)

SameCoordsById(before, after) ==
    \A n \in 1 .. Len(after) :
        \A m \in 1 .. Len(before) :
            before[m].uuid = after[n].uuid
            => AnchorPoints(before[m]) = AnchorPoints(after[n])

(* C34: every annotation of a page's live list is expressed in the frame of
   the page's current rotation value.  An undo leaves that value as it is, so
   an annotation that is in the list before and after an undo has the same
   coordinates: undo does not bring back coordinates of an earlier frame. *)
C34_UndoKeepsFrame ==
    [][ (Stepped /\ last'.op = "undo" /\ last'.ret)
        => /\ rotations' = rotations
           /\ SameCoordsById(PageList(annotations, last'.pg),
                             PageList(annotations', last'.pg)) ]_vars

-----------------------------------------------------------------------------
(* Undo after an erase and after a text edit *)

(* C35: an erase that removed something, or a text edit, immediately followed
   by undo of the same page leaves the page's list exactly as it was before
   the erase or edit: the erased annotation is back at its place in the
   order and the edited text, font, size and colour have their previous
   values.  The snapshot an erase or edit pushes is the list before it,
   whatever the operation then changes in the live list. *)
C35_UndoRestoresAfterEraseOrEdit ==
    /\ [][ (Stepped /\ last.op \in {"erase", "edit"} /\ last.ret
                    /\ last'.op = "undo" /\ last'.pg = last.pg)
           => (last'.ret /\ PageList(annotations', last.pg) = last.before) ]_vars
    /\ [][ (Stepped /\ last'.op \in {"erase", "edit"} /\ last'.ret)
           => LET stack == StackOf(undo_stack', last'.pg)
              IN  /\ Len(stack) > 0
                  /\ stack[Len(stack)] = PageList(annotations, last'.pg) ]_vars

(* A text edit that changed the annotation has been undone *)
C35_Witness ==
    /\ last.op = "undo"
    /\ last.ret
    /\ last.prev = "edit"
    /\ last.prevpg = last.pg
    /\ PageList(annotations, last.pg) # last.before

-----------------------------------------------------------------------------
(* When load writes *)

(* Sidecars of every kind load distinguishes: none, versioned with and
   without items, versioned with an item that has no id, the flat format with
   items and with an empty page *)
ResaveFiles ==
    { FileAbsent,
      FileJson([version |-> ANNOTATION_VERSION,
                rotations |-> EmptyDict,
                pages |-> [s \in {"0"} |-> <<SavedInk, SavedText>>]]),
      FileJson([version |-> ANNOTATION_VERSION,
                rotations |-> [s \in {"0"} |-> 90],
                pages |-> EmptyDict]),
      FileJson([version |-> ANNOTATION_VERSION,
                rotations |-> EmptyDict,
                pages |-> [s \in {"0"} |-> <<SavedInk, WithoutUuid(SavedText)>>]]),
      FileJson([s \in {"0"} |-> <<WithoutUuid(SavedInk)>>]),
      FileJson([s \in {"0"} |-> << >>]) }

ResaveInit ==
    /\ Unopened
    /\ disk \in [SidecarPaths -> ResaveFiles]
    /\ win = OnePageWin
    /\ NoCall

ResaveNext == MgrLoad \/ MgrAdd \/ MgrUndo

SpecResave == ResaveInit /\ [][ResaveNext]_vars

LoadStep == Stepped /\ last'.op = "load"

(* C36: load writes to the sidecar path if and only if at least one
   annotation id was freshly assigned during that load. *)
C36_LoadWritesIffIdAssigned ==
    [][ LoadStep => ((last'.saved # "none") <=> (nextId' > nextId)) ]_vars

(* C36, amended: load writes if and only if an id was freshly assigned or
   the file is a non-empty map in the flat format; a load that does not
   write, or whose write fails, leaves every file as it was, and one that
   writes stores exactly the loaded state.  In particular a missing sidecar
   stays missing and a versioned sidecar whose items all have ids, or that
   has no items, stays unchanged. *)
C36_LoadWritesIffAssignedOrFlat ==
    [][ LoadStep
        => /\ (last'.saved # "none") <=> (nextId' > nextId \/ IsLegacy(disk[path']))
           /\ last'.saved \in {"none", "failed"} => disk' = disk
           /\ last'.saved = "ok"
              => disk' = [disk EXCEPT ![path'] =
                             FileJson(JsonDump(SaveData(rotations', annotations')))] ]_vars

(* A flat store with no items has been loaded and rewritten *)
C36_Witness ==
    /\ last.op = "load"
    /\ last.saved = "ok"
    /\ nextId = 1
    /\ ~IsLegacy(disk[path])

-----------------------------------------------------------------------------
(* A pen stroke and the events handled while it is drawn *)

(* The stroke normalized against the placement rectangle l *)
StrokeIn(stroke, l) ==
    [i \in 1 .. Len(stroke) |-> <<ToNorm(stroke[i][1], l.x, l.w), ToNorm(stroke[i][2], l.y, l.h)>>]

PenUpStores == Stepped /\ last'.op = "add" /\ current_stroke # << >> /\ current_stroke' = << >>

(* C37: an ink stroke is stored on the page on which it was drawn and
   normalized against the placement rectangle that was on screen while its
   points were captured, whatever is handled between pointer-down and
   pointer-up. *)
C37_StrokeStoredWhereDrawn ==
    [][ PenUpStores
        => LET stored == PageList(annotations', last'.pg)
           IN  /\ last'.pg = pen_down.p
               /\ stored[Len(stored)].points = StrokeIn(current_stroke, pen_down) ]_vars

-----------------------------------------------------------------------------
(* Scanning directories in background threads *)

MaxScans == 3

Dirs == {"dirA", "dirB"}

(* What os.walk finds in a directory *)
Listing(d) == IF d = "dirA" THEN {"a.pdf"} ELSE {"b.pdf", "c.pdf"}

(* _load_dir: the busy cursor is set and a worker thread is started *)
LoadDir ==
    \E d \in Dirs :
        /\ lib.started < MaxScans
        /\ lib' = [lib EXCEPT !.cursor = "watch",
                              !.workers = DictPut(@, lib.started + 1, d),
                              !.started = @ + 1,
                              !.requested = d]
        /\ mgrFrame
        /\ UNCHANGED <<doc, current_page, win, page_layout, canvas, tool, current_stroke,
                       resize_job, root, pointer, pen_down, storeVars>>

(* A worker's _scan ends: root.after(0, ...) queues _on_scan_complete(found, path) *)
ScanFinish ==
    \E id \in DOMAIN lib.workers :
        /\ lib' = [lib EXCEPT !.workers = AfterCancel(@, id),
                              !.after = Append(@, [found |-> Listing(lib.workers[id]),
                                                   path  |-> lib.workers[id]])]
        /\ mgrFrame
        /\ UNCHANGED <<doc, current_page, win, page_layout, canvas, tool, current_stroke,
                       resize_job, root, pointer, pen_down, storeVars>>

(* _on_scan_complete, run by the event loop *)
ScanComplete ==
    /\ lib.after # << >>
    /\ lib' = [lib EXCEPT !.scores = Head(lib.after).found,
                          !.last_directory = Head(lib.after).path,
                          !.cursor = "",
                          !.after = Tail(@)]
    /\ mgrFrame
    /\ UNCHANGED <<doc, current_page, win, page_layout, canvas, tool, current_stroke,
                   resize_job, root, pointer, pen_down, storeVars>>

ScanNext == LoadDir \/ ScanFinish \/ ScanComplete

SpecScan == Init /\ [][ScanNext]_vars

ScansOver == lib.workers = EmptyDict /\ lib.after = << >>

(* C38: when the scans that were started have all finished, the scores list
   and the saved last_directory are those of the most recently requested
   directory, in whatever order the workers completed, and the busy cursor is
   not reset while a scan is still running. *)
C38_LastRequestedScanWins ==
    /\ (ScansOver /\ lib.started > 0)
       => (lib.scores = Listing(lib.requested) /\ lib.last_directory = lib.requested)
    /\ lib.workers # EmptyDict => lib.cursor = "watch"

-----------------------------------------------------------------------------
(* A failed open *)

(* _load_pdf returns False with a document displayed before it *)
FailedOpenStep == doc # NoDoc /\ doc' = NoDoc /\ root.mapped /\ root'.mapped

(* C39: a failed open leaves the viewer consistent: either the previously
   open document is still open, or the document handle and the annotation
   manager's binding and state are all cleared. *)
C39_FailedOpenIsConsistent ==
    [][ FailedOpenStep
        => \/ doc' = doc
           \/ /\ path' = NoPath
              /\ annotations' = EmptyDict
              /\ rotations' = EmptyDict
              /\ undo_stack' = EmptyDict ]_vars

====
